---- MODULE Spec2Model ----
(***************************************************************************)
(* Model of the Chrome policy resources (org-unit and group targets), the  *)
(* shared chrome policy helpers, and the group / dynamic group resources   *)
(* of terraform-provider-googleworkspace.                                  *)
(*                                                                         *)
(* One behaviour of Spec is one invocation of a create or delete handler   *)
(* on a resource whose prior state is drawn by Init; one behaviour of      *)
(* SpecUpdate is one invocation of an update handler; one behaviour of     *)
(* SpecGroup is one invocation of a group handler, its consistency wait    *)
(* taken poll by poll.  Every retryTimeDuration-wrapped remote call of the *)
(* policy handlers is one dispatch whose final outcome (after its          *)
(* retries) is an input of the handler.                                    *)
(***************************************************************************)
EXTENDS Integers, Sequences, FiniteSets, TLC

VARIABLES
  kind,        \* target kind served by the handler: "orgunits", "groups", ...
  exists,      \* the resource has state (d.Id() is set)
  oldPolicies, \* d's prior "policies": sequence of policy ids
  oldKeys,     \* d's prior "additional_target_keys": sequence of <<key, value>>
  handler,     \* the handler that ran ("none" before any)
  cfgPolicies, \* "policies" of the configuration the handler runs with
  cfgKeys,     \* "additional_target_keys" of that configuration
  calls,       \* the remote dispatches of the handler, in order
  result,      \* "none", "ok" or "error": the diagnostics the handler returned
  remote,      \* policies set at the remote service: set of <<targetKey, schema>>
  dPolicies,   \* d's "policies" after the handler (schema names)
  diags,       \* the diagnostics the policy handler returned
  gHandler,    \* the group handler that is running or ran ("none" before any)
  gExists,     \* the group has state (d.Id() is set)
  oldAliases,  \* the group's prior "aliases"
  cfgAliases,  \* "aliases" of the configuration the handler runs with
  mutating,    \* the mutating calls the handler issued against the group, in order
  numInserts,  \* the handler's numInserts, handed to reachedConsistency
  cc,          \* consistencyCheck: currConsistent and lastEtag (0 is "")
  ticks,       \* polls answered so far in the wait
  stableRun,   \* "not modified" answers since the last new etag or "not found"
  lastAnswer,  \* what the last poll of the wait was answered ("none" before any)
  waitState,   \* "none", "Waiting", "Converged" or "TimedOut"
  gResult,     \* "none", "ok" or "error": the diagnostics the handler returned
  oldSecurityGroup, \* the group's prior "security_group"
  cfgSecurityGroup, \* "security_group" of the configuration the handler runs with
  labelsSent,  \* the label sets the handler sent to the Cloud Identity service
  inType,      \* the wire type of the schema field a value belongs to
  inValue,     \* a JSON-decoded field value
  fieldOp,     \* the field-value function applied to it ("none" before any)
  fieldOut,    \* what that function returned
  hasDefinition, \* the fetched schema has a definition with message types
  inMessageType, \* the message types of a fetched schema definition
  ordHandler,  \* the group priority ordering handler that ran ("none" before any)
  ordSchema,   \* "policy_schema" of the ordering resource
  ordTargetKey, \* its "policy_target_key" list: <<>> when omitted, else one block
  ordGroupIds, \* d's "group_ids"
  ordId,       \* d.Id() of the ordering resource (NoId when unset)
  ordRequests, \* the requests the handler issued, in order
  ordRemote,   \* the group ordering the remote service holds for the schema
  ordResult,   \* "none", "ok", "error" or "panic": how the handler ended
  fileHandler, \* the chrome policy file handler that ran ("none" before any)
  filePrior,   \* the file resource's prior state: ID and attributes
  filePlanned, \* d as handed to the handler: the prior state under the plan
  fileD,       \* d after the handler
  fileDisk,    \* the local files: path -> content, or Missing
  fileUploads, \* the media uploads the handler issued, in order
  fileResult,  \* "none", "ok" or "error": the diagnostics the handler returned
  resolveResp, \* the answers to the Resolve calls of a read, in order
  dValues      \* the values of d's "policies" after a read, in order

policyVars == <<kind, exists, oldPolicies, oldKeys, handler, cfgPolicies, cfgKeys,
                calls, result, remote, dPolicies, diags>>

groupVars == <<gHandler, gExists, oldAliases, cfgAliases, mutating, numInserts, cc,
               ticks, stableRun, lastAnswer, waitState, gResult,
               oldSecurityGroup, cfgSecurityGroup, labelsSent>>

fieldVars == <<inType, inValue, fieldOp, fieldOut, hasDefinition, inMessageType>>

orderingVars == <<ordHandler, ordSchema, ordTargetKey, ordGroupIds, ordId, ordRequests,
                  ordRemote, ordResult>>

fileVars == <<fileHandler, filePrior, filePlanned, fileD, fileDisk, fileUploads,
              fileResult>>

readVars == <<resolveResp, dValues>>

vars == <<policyVars, groupVars, fieldVars, orderingVars, fileVars, readVars>>

----------------------------------------------------------------------------
(* Bounds *)

MaxPolicies == 2

MaxKeys == 3

MaxUpdPolicies == 1

MaxUpdKeys == 1

MaxAliases == 2

MaxTicks == 4

----------------------------------------------------------------------------
(* Target kinds *)

targetOrgUnit == "orgunits"

targetGroup == "groups"

\* A kind that is neither of the two constants, as in TestIdAttributeForKind_Common.
otherKind == "something_else"

TargetKinds == {targetOrgUnit, targetGroup, otherKind}

----------------------------------------------------------------------------
(* JSON-decoded values: kind is the reflect.Kind of the Go value produced  *)
(* by json.Unmarshal into interface{}; n carries a number in tenths (330   *)
(* is 33, 335 is 33.5), a boolean as 0/1, and is 0 otherwise.              *)

JsonValue(k, n) == [kind |-> k, n |-> n, elems |-> <<>>]

JsonArray(es) == [kind |-> "Slice", n |-> 0, elems |-> es]

\* float64(int(v)) == v for a value carried in tenths.
IsIntegral(v) == v.n % 10 = 0

----------------------------------------------------------------------------
(* The policy schemas the remote service defines (the input of the schema  *)
(* fetch).  hasKeyNames is AdditionalTargetKeyNames != nil.                *)

Field(nm, ty, lb) == [name |-> nm, type |-> ty, label |-> lb]

SchemaNames ==
  { "chrome.users.MaxConnectionsPerProxy",
    "chrome.users.RestrictSigninToPattern",
    "chrome.users.apps.InstallType",
    "chrome.users.apps.PinningPolicy" }

SchemaDef(name) ==
  CASE name = "chrome.users.MaxConnectionsPerProxy" ->
         [defined |-> TRUE,
          messageType |-> << <<Field("maxConnectionsPerProxy", "TYPE_INT64", "LABEL_OPTIONAL")>> >>,
          hasKeyNames |-> FALSE, keyNames |-> {}]
    [] name = "chrome.users.RestrictSigninToPattern" ->
         [defined |-> TRUE,
          messageType |-> << <<Field("restrictSigninToPattern", "TYPE_STRING", "LABEL_OPTIONAL")>> >>,
          hasKeyNames |-> FALSE, keyNames |-> {}]
    [] name = "chrome.users.apps.InstallType" ->
         [defined |-> TRUE,
          messageType |-> << <<Field("appInstallType", "TYPE_ENUM", "LABEL_OPTIONAL")>> >>,
          hasKeyNames |-> TRUE, keyNames |-> {"app_id"}]
    [] name = "chrome.users.apps.PinningPolicy" ->
         [defined |-> TRUE,
          messageType |-> << <<Field("extensionPinningPolicy", "TYPE_ENUM", "LABEL_OPTIONAL")>> >>,
          hasKeyNames |-> TRUE, keyNames |-> {"app_id", "profile_id"}]
    [] OTHER ->
         [defined |-> FALSE, messageType |-> <<>>, hasKeyNames |-> FALSE, keyNames |-> {}]

----------------------------------------------------------------------------
(* The policy assignments a configuration may list.  schema_values maps a  *)
(* field name to its JSON-decoded value.                                   *)

PolicyIds == {"pMax", "pMaxBad", "pPattern", "pInstall", "pPinning"}

\* One policy of one field: the schema's field has wire type inType, and
\* inValue is the field's value, in the configuration for a create and in
\* the resolved policy for a read.
FieldPolicy == "pField"

FieldSchema == "chrome.users.FieldPolicy"

Policy(id) ==
  CASE id = "pMax" ->
         [schema_name |-> "chrome.users.MaxConnectionsPerProxy",
          schema_values |-> [f \in {"maxConnectionsPerProxy"} |-> JsonValue("Float64", 330)]]
    [] id = "pMaxBad" ->
         [schema_name |-> "chrome.users.MaxConnectionsPerProxy",
          schema_values |-> [f \in {"maxConnectionsPerProxy"} |-> JsonValue("Float64", 335)]]
    [] id = "pPattern" ->
         [schema_name |-> "chrome.users.RestrictSigninToPattern",
          schema_values |-> [f \in {"restrictSigninToPattern"} |-> JsonValue("String", 0)]]
    [] id = "pInstall" ->
         [schema_name |-> "chrome.users.apps.InstallType",
          schema_values |-> [f \in {"appInstallType"} |-> JsonValue("String", 0)]]
    [] id = "pPinning" ->
         [schema_name |-> "chrome.users.apps.PinningPolicy",
          schema_values |-> [f \in {"extensionPinningPolicy"} |-> JsonValue("String", 0)]]
    [] id = FieldPolicy ->
         [schema_name |-> FieldSchema,
          schema_values |-> [f \in {"field"} |-> inValue]]

SchemaOf(id) == Policy(id).schema_name

\* The additional target key bindings a configuration may list.
KeyPairs == { <<"app_id", "chrome:aaa">>, <<"app_id", "chrome:bbb">>, <<"profile_id", "def">> }

\* All sequences over S of length at most n.
SeqsUpTo(S, n) == UNION { [1..m -> S] : m \in 0..n }

\* The schema names of a "policies" list, in order.
SchemaNamesOf(ps) == [i \in 1..Len(ps) |-> SchemaOf(ps[i])]

Range(f) == { f[i] : i \in DOMAIN f }

----------------------------------------------------------------------------
(* Validation *)

validatePolicyFieldValueType(fieldType, fieldValue) ==
  CASE fieldType = "TYPE_BOOL" -> fieldValue.kind = "Bool"
    [] fieldType \in {"TYPE_FLOAT", "TYPE_DOUBLE"} -> fieldValue.kind = "Float64"
    [] fieldType \in {"TYPE_INT64", "TYPE_FIXED64", "TYPE_SFIXED64", "TYPE_SINT64", "TYPE_UINT64"} ->
         fieldValue.kind = "Float64" /\ IsIntegral(fieldValue)
    [] fieldType \in {"TYPE_INT32", "TYPE_FIXED32", "TYPE_SFIXED32", "TYPE_SINT32", "TYPE_UINT32"} ->
         fieldValue.kind = "Float32" /\ IsIntegral(fieldValue)
    [] fieldType = "TYPE_MESSAGE" -> fieldValue.kind = "Map"
    [] OTHER -> fieldValue.kind = "String"

\* schemaFieldMap: the fields of all message types keyed by name; a later
\* field of the same name overwrites an earlier one.
FlatFields(messageType) ==
  LET RECURSIVE cat(_)
      cat(i) == IF i > Len(messageType) THEN <<>> ELSE messageType[i] \o cat(i + 1)
  IN cat(1)

\* A variant in which an earlier field of the same name is kept.
schemaFieldMapFirstWins(messageType) ==
  LET RECURSIVE cat(_)
      cat(i) == IF i > Len(messageType) THEN <<>> ELSE messageType[i] \o cat(i + 1)
      fs == cat(1)
      first(nm) == CHOOSE i \in 1..Len(fs) :
                     fs[i].name = nm /\ \A j \in 1..(i - 1) : fs[j].name # nm
  IN [nm \in { fs[i].name : i \in 1..Len(fs) } |-> fs[first(nm)]]

schemaFieldMap(messageType) ==
  LET fs == FlatFields(messageType)
      last(nm) == CHOOSE i \in 1..Len(fs) :
                     fs[i].name = nm /\ \A j \in (i + 1)..Len(fs) : fs[j].name # nm
  IN [nm \in { fs[i].name : i \in 1..Len(fs) } |-> fs[last(nm)]]

\* expandChromePoliciesAdditionalTargetKeys: the list as a map, a later
\* binding of a key name overwriting an earlier one; a set of <<key, value>>.
expandChromePoliciesAdditionalTargetKeys(keys) ==
  { keys[i] : i \in { i \in 1..Len(keys) :
                        \A j \in (i + 1)..Len(keys) : keys[j][1] # keys[i][1] } }

\* The checks on one field value of a policy.
FieldValueOk(fmap, polKey, polVal) ==
  /\ polKey \in DOMAIN fmap
  /\ IF fmap[polKey].label = "LABEL_REPEATED"
       THEN /\ polVal.kind \in {"Array", "Slice"}
            /\ \A i \in 1..Len(polVal.elems) :
                 validatePolicyFieldValueType(fmap[polKey].type, polVal.elems[i])
       ELSE validatePolicyFieldValueType(fmap[polKey].type, polVal)

\* A variant that checks the supplied bindings only.
TargetKeysOkSuppliedOnly(schemaDef, keys) ==
  keys # <<>> =>
    /\ schemaDef.hasKeyNames
    /\ \A kv \in expandChromePoliciesAdditionalTargetKeys(keys) : kv[1] \in schemaDef.keyNames

\* The additional-target-key checks on one policy's schema.
TargetKeysOk(schemaDef, keys) ==
  IF keys # <<>>
    THEN /\ schemaDef.hasKeyNames
         /\ \A kv \in expandChromePoliciesAdditionalTargetKeys(keys) : kv[1] \in schemaDef.keyNames
    ELSE ~schemaDef.hasKeyNames

PolicyValid(p, keys) ==
  LET schemaDef == SchemaDef(p.schema_name)
      fmap == schemaFieldMap(schemaDef.messageType)
  IN /\ schemaDef.defined
     /\ \A polKey \in DOMAIN p.schema_values : FieldValueOk(fmap, polKey, p.schema_values[polKey])
     /\ TargetKeysOk(schemaDef, keys)

\* TRUE iff validateChromePolicies returns no error diagnostic for the
\* configuration; fetchErr is a schema fetch failing after its retries.
validateChromePolicies(policies, keys, fetchErr) ==
  /\ policies # <<>> => ~fetchErr
  /\ \A i \in 1..Len(policies) : PolicyValid(Policy(policies[i]), keys)


----------------------------------------------------------------------------
(* Remote dispatches *)

\* PolicyTargetKey: resource stands for "<kind>/<id>" of the one target of
\* the model, keys for the AdditionalTargetKeys map.
TargetKey(k, keys) == [resource |-> k, keys |-> keys]

\* One batch request: prim is the service method, items the policy ids
\* (modify) or schema names (inherit, delete) of its requests, in order.
Batch(prim, target, items) == [prim |-> prim, target |-> target, items |-> items, outcome |-> "ok"]

\* The final outcome of one dispatch after its retries: "ok", "error", or
\* "notInstalled" (HTTP 400 "apps are not installed").
Outcomes == {"ok", "error", "notInstalled"}

\* A variant in which no handler tolerates "notInstalled".
FatalAlways(o, soft) == o # "ok"

\* An error outcome that ends the handler: every error, except that a
\* handler that tolerates "notInstalled" (soft) goes on after it.
Fatal(o, soft) == o = "error" \/ (o = "notInstalled" /\ ~soft)

\* The responses a plan of batches may get: one outcome per batch, and none
\* but "ok" after the first fatal one (those batches are never dispatched).
Responses(plan, soft) ==
  { resp \in [1..Len(plan) -> Outcomes] :
      \A i \in 1..Len(plan) : \A j \in (i + 1)..Len(plan) :
         Fatal(resp[i], soft) => resp[j] = "ok" }

\* A variant that takes no response for fatal.
FirstFatalNone(resp, soft) == 0

\* The index of the first fatal response, 0 if none.
FirstFatal(resp, soft) ==
  IF \E i \in DOMAIN resp : Fatal(resp[i], soft)
    THEN CHOOSE i \in DOMAIN resp :
           Fatal(resp[i], soft) /\ \A j \in 1..(i - 1) : ~Fatal(resp[j], soft)
    ELSE 0

\* A variant that goes on dispatching after a failed batch.
DispatchedAll(plan, resp, soft) ==
  [i \in 1..Len(plan) |-> [plan[i] EXCEPT !.outcome = resp[i]]]

\* The batches actually dispatched, each with its outcome: the plan up to
\* and including the first fatal response.
Dispatched(plan, resp, soft) ==
  LET f == FirstFatal(resp, soft)
      n == IF f = 0 THEN Len(plan) ELSE f
  IN [i \in 1..n |-> [plan[i] EXCEPT !.outcome = resp[i]]]

----------------------------------------------------------------------------
(* The remote service: the set of <<targetKey, schema>> that are set.      *)

IsModify(c) == c.prim \in {"Orgunits.BatchModify", "Groups.BatchModify"}

ItemSchemas(c) == IF IsModify(c) THEN Range(SchemaNamesOf(c.items)) ELSE Range(c.items)

\* The effect of one dispatch: a successful modify sets its schemas at its
\* target, a successful inherit or delete unsets them there.
ApplyBatch(r, c) ==
  IF c.outcome # "ok" THEN r
  ELSE IF IsModify(c) THEN r \cup { <<c.target, s>> : s \in ItemSchemas(c) }
  ELSE r \ { <<c.target, s>> : s \in ItemSchemas(c) }

RECURSIVE ApplyCalls(_, _)
ApplyCalls(r, cs) ==
  IF cs = <<>> THEN r ELSE ApplyCalls(ApplyBatch(r, Head(cs)), Tail(cs))

\* Resolve(policySchemaFilter, policyTargetKey): whether a policy is
\* returned, i.e. the schema is set at exactly that target.
Resolve(r, target, schema) == <<target, schema>> \in r


----------------------------------------------------------------------------
(* Request building *)

\* A variant that splits the org-unit request list into one call per policy.
OrgUnitModifyPlanPerPolicy(k, policies, keys) ==
  [i \in 1..Len(policies) |->
     Batch("Orgunits.BatchModify",
           TargetKey(k, expandChromePoliciesAdditionalTargetKeys(keys)), <<policies[i]>>)]

\* One Orgunits.BatchModify request list: every policy, in order, at the
\* target narrowed by the expanded additional target keys.
OrgUnitModifyPlan(k, policies, keys) ==
  << Batch("Orgunits.BatchModify", TargetKey(k, expandChromePoliciesAdditionalTargetKeys(keys)), policies) >>

\* One Orgunits.BatchInherit request list: every schema name, in order.
OrgUnitInheritPlan(k, schemas, keys) ==
  << Batch("Orgunits.BatchInherit", TargetKey(k, expandChromePoliciesAdditionalTargetKeys(keys)), schemas) >>

\* keyGroups: the bindings grouped by target_key.  Ranging over the Go map
\* visits the key names in an unspecified order; within one key name the
\* bindings keep their list order.  The set of the possible visiting orders
\* of the bindings.
KeyGroupOrders(keys) ==
  LET names == { keys[i][1] : i \in 1..Len(keys) }
      n == Cardinality(names)
      perms == { f \in [1..n -> names] : \A i, j \in 1..n : f[i] = f[j] => i = j }
      group(nm) == SelectSeq(keys, LAMBDA kv : kv[1] = nm)
      RECURSIVE cat(_, _)
      cat(f, i) == IF i > n THEN <<>> ELSE group(f[i]) \o cat(f, i + 1)
  IN { cat(f, 1) : f \in perms }

\* A variant that puts every policy of a keyless group into one call.
GroupModifyPlansOneCall(policies, keys) ==
  IF keys = <<>>
    THEN { << Batch("Groups.BatchModify", TargetKey(targetGroup, {}), policies) >> }
    ELSE { [j \in 1..Len(order) |->
              Batch("Groups.BatchModify", TargetKey(targetGroup, {order[j]}), policies)]
           : order \in KeyGroupOrders(keys) }

\* resourceChromeGroupPolicyCreate's batches: without additional target keys
\* one Groups.BatchModify per policy at the bare group; with them one per
\* listed binding, holding every policy, at the group narrowed by that binding.
GroupModifyPlans(policies, keys) ==
  IF keys = <<>>
    THEN { [i \in 1..Len(policies) |->
              Batch("Groups.BatchModify", TargetKey(targetGroup, {}), <<policies[i]>>)] }
    ELSE { [j \in 1..Len(order) |->
              Batch("Groups.BatchModify", TargetKey(targetGroup, {order[j]}), policies)]
           : order \in KeyGroupOrders(keys) }

\* resourceChromeGroupPolicyDelete's batches, built the same way from the
\* schema names of d's policies.
GroupDeletePlans(schemas, keys) ==
  IF keys = <<>>
    THEN { [i \in 1..Len(schemas) |->
              Batch("Groups.BatchDelete", TargetKey(targetGroup, {}), <<schemas[i]>>)] }
    ELSE { [j \in 1..Len(order) |->
              Batch("Groups.BatchDelete", TargetKey(targetGroup, {order[j]}), schemas)]
           : order \in KeyGroupOrders(keys) }

----------------------------------------------------------------------------
(* Read: one Resolve per configured policy at the target narrowed by the   *)
(* expanded keys; a schema that resolves to no policy is skipped.          *)

ResolvedSchemas(r, k, policies, keys) ==
  LET t == TargetKey(k, expandChromePoliciesAdditionalTargetKeys(keys))
  IN SelectSeq(SchemaNamesOf(policies), LAMBDA sch : Resolve(r, t, sch))

\* d's policies after resourceChromePolicyRead; readErr is a failure of a
\* Resolve or of flattenChromePolicies, which leaves d as it was.
resourceChromePolicyRead(r, d, policies, keys, readErr) ==
  IF readErr THEN d ELSE ResolvedSchemas(r, targetOrgUnit, policies, keys)

resourceChromeGroupPolicyRead(r, d, policies, keys, readErr) ==
  IF readErr THEN d ELSE ResolvedSchemas(r, targetGroup, policies, keys)

\* chromePolicyReadCommon fails unless every schema resolves to one policy.
ReadCommonOk(r, k, policies, keys) ==
  Len(ResolvedSchemas(r, k, policies, keys)) = Len(policies)

----------------------------------------------------------------------------
(* Configurations and prior states *)

\* "policies" is a required block list (at least one block);
\* "additional_target_keys" is optional.
Configs(mp, mk) == (SeqsUpTo(PolicyIds, mp) \ {<<>>}) \X SeqsUpTo(KeyPairs, mk)

\* The states a resource is left in by a successful apply: a configuration
\* that passes validation.
StoredStates(mp, mk) == { c \in Configs(mp, mk) : validateChromePolicies(c[1], c[2], FALSE) }

\* What a successful apply of (policies, keys) sets at the remote service.
AppliedRemote(k, policies, keys) ==
  IF k = targetGroup
    THEN ApplyCalls({}, CHOOSE plan \in GroupModifyPlans(policies, keys) : TRUE)
    ELSE ApplyCalls({}, OrgUnitModifyPlan(k, policies, keys))

\* Errors and diagnostics.  The error of a failed batch is the remote
\* service's answer to that batch, to which the handlers add nothing; every
\* other error (validation, schema fetch, read) is the handler's own.
BatchError(c) == [kind |-> "batch", outcome |-> c.outcome]

HandlerError == [kind |-> "handler", outcome |-> "error"]

NoError == [kind |-> "none", outcome |-> "ok"]

\* diag.FromErr(err): one error diagnostic whose summary is err and nothing else.
FromErr(err) == [severity |-> "error", summary |-> err]

NoDiags == [severity |-> "none", summary |-> NoError]

\* The diagnostics of a handler that dispatched cs: when its last dispatch
\* failed it returned diag.FromErr of that batch's error.
ReturnedDiags(cs, ok) ==
  IF ok THEN NoDiags
  ELSE IF cs # <<>> /\ cs[Len(cs)].outcome # "ok"
         THEN FromErr(BatchError(cs[Len(cs)]))
         ELSE FromErr(HandlerError)

\* The primed variables of a finished handler h that ran with configuration
\* (cp, ck), dispatched cs, returned diagnostics without error iff ok, and
\* left d with id set iff id and policies dp.
Finish(h, cp, ck, cs, ok, id, dp) ==
  /\ handler' = h
  /\ cfgPolicies' = cp
  /\ cfgKeys' = ck
  /\ calls' = cs
  /\ result' = IF ok THEN "ok" ELSE "error"
  /\ remote' = ApplyCalls(remote, cs)
  /\ exists' = id
  /\ dPolicies' = dp
  /\ diags' = ReturnedDiags(cs, ok)
  /\ UNCHANGED <<kind, oldPolicies, oldKeys>>
  /\ UNCHANGED <<groupVars, fieldVars, orderingVars, fileVars, readVars>>


----------------------------------------------------------------------------
(* Initial states: a resource that does not exist yet, or one left by a    *)
(* successful apply of a valid configuration.                              *)

\* No group handler has run and none will.
GroupIdle ==
  /\ gHandler = "none"
  /\ gExists = FALSE
  /\ oldAliases = <<>>
  /\ cfgAliases = <<>>
  /\ mutating = <<>>
  /\ numInserts = 0
  /\ cc = [currConsistent |-> 0, lastEtag |-> 0]
  /\ ticks = 0
  /\ stableRun = 0
  /\ lastAnswer = "none"
  /\ waitState = "none"
  /\ gResult = "none"
  /\ oldSecurityGroup = FALSE
  /\ cfgSecurityGroup = FALSE
  /\ labelsSent = <<>>

\* d.Id() of a resource without state.
NoId == <<>>

\* A chrome policy file resource without state, as d holds it (hashes are
\* tuples, the empty one standing for the empty string).
NoFile == [id |-> "", file_path |-> "", file_hash |-> <<>>, download_uri |-> ""]

\* No chrome policy file handler has run and none will.
FileIdle ==
  /\ fileHandler = "none"
  /\ filePrior = NoFile
  /\ filePlanned = NoFile
  /\ fileD = NoFile
  /\ fileDisk = <<>>
  /\ fileUploads = <<>>
  /\ fileResult = "none"

\* No read handler has run on its own and none will.
ReadIdle ==
  /\ resolveResp = <<>>
  /\ dValues = <<>>

\* No group priority ordering handler has run and none will.
OrderingIdle ==
  /\ ordHandler = "none"
  /\ ordSchema = "chrome.users.Wallpaper"
  /\ ordTargetKey = <<>>
  /\ ordGroupIds = <<>>
  /\ ordId = NoId
  /\ ordRequests = <<>>
  /\ ordRemote = <<>>
  /\ ordResult = "none"

\* No field-value function has run and none will.
FieldIdle ==
  /\ inType = "TYPE_STRING"
  /\ inValue = JsonValue("Invalid", 0)
  /\ fieldOp = "none"
  /\ fieldOut = [valid |-> FALSE]
  /\ hasDefinition = TRUE
  /\ inMessageType = <<>>

InitWith(mp, mk) ==
  /\ GroupIdle
  /\ FieldIdle
  /\ OrderingIdle
  /\ FileIdle
  /\ ReadIdle
  /\ kind \in TargetKinds
  /\ exists \in BOOLEAN
  /\ IF exists
       THEN \E c \in StoredStates(mp, mk) :
              /\ oldPolicies = c[1]
              /\ oldKeys = c[2]
              /\ remote = AppliedRemote(kind, c[1], c[2])
              /\ dPolicies = SchemaNamesOf(c[1])
       ELSE /\ oldPolicies = <<>>
            /\ oldKeys = <<>>
            /\ remote = {}
            /\ dPolicies = <<>>
  /\ handler = "none"
  /\ cfgPolicies = <<>>
  /\ cfgKeys = <<>>
  /\ calls = <<>>
  /\ result = "none"
  /\ diags = NoDiags

Init == InitWith(MaxPolicies, MaxKeys)

----------------------------------------------------------------------------
(* Create handlers: validate, dispatch the batches until one fails, set    *)
(* the id, read back.                                                      *)

\* The dispatches of a create: none when validation fails.
CreateCalls(cp, ck, fetchErr, plan, resp) ==
  IF validateChromePolicies(cp, ck, fetchErr) THEN Dispatched(plan, resp, FALSE) ELSE <<>>

\* The create reached d.SetId: validation passed and every batch succeeded.
CreateApplied(cp, ck, fetchErr, resp) ==
  validateChromePolicies(cp, ck, fetchErr) /\ FirstFatal(resp, FALSE) = 0

\* Inputs the handler never consumes are held at one value.
InputsUsed(cp, ck, fetchErr, resp, readErr) ==
  /\ validateChromePolicies(cp, ck, fetchErr) \/ \A i \in DOMAIN resp : resp[i] = "ok"
  /\ CreateApplied(cp, ck, fetchErr, resp) \/ ~readErr

resourceChromePolicyCreate ==
  /\ handler = "none" /\ kind = targetOrgUnit /\ ~exists
  /\ \E c \in Configs(MaxPolicies, MaxKeys), fetchErr \in BOOLEAN, readErr \in BOOLEAN :
     \E plan \in {OrgUnitModifyPlan(targetOrgUnit, c[1], c[2])} :
     \E resp \in Responses(plan, FALSE) :
       LET cs == CreateCalls(c[1], c[2], fetchErr, plan, resp)
           applied == CreateApplied(c[1], c[2], fetchErr, resp)
       IN /\ InputsUsed(c[1], c[2], fetchErr, resp, readErr)
          /\ Finish("resourceChromePolicyCreate", c[1], c[2], cs, applied /\ ~readErr, applied,
               IF applied
                 THEN resourceChromePolicyRead(ApplyCalls(remote, cs), dPolicies, c[1], c[2], readErr)
                 ELSE dPolicies)

resourceChromeGroupPolicyCreate ==
  /\ handler = "none" /\ kind = targetGroup /\ ~exists
  /\ \E c \in Configs(MaxPolicies, MaxKeys), fetchErr \in BOOLEAN, readErr \in BOOLEAN :
     \E plan \in GroupModifyPlans(c[1], c[2]) :
     \E resp \in Responses(plan, FALSE) :
       LET cs == CreateCalls(c[1], c[2], fetchErr, plan, resp)
           applied == CreateApplied(c[1], c[2], fetchErr, resp)
       IN /\ InputsUsed(c[1], c[2], fetchErr, resp, readErr)
          /\ Finish("resourceChromeGroupPolicyCreate", c[1], c[2], cs, applied /\ ~readErr, applied,
               IF applied
                 THEN resourceChromeGroupPolicyRead(ApplyCalls(remote, cs), dPolicies, c[1], c[2], readErr)
                 ELSE dPolicies)

\* chromePolicyCreateCommon: for a group one Groups.BatchModify per policy at
\* the target narrowed by the expanded keys; for any other kind one
\* Orgunits.BatchModify with every policy.
CommonModifyPlan(k, policies, keys) ==
  IF k = targetGroup
    THEN [i \in 1..Len(policies) |->
            Batch("Groups.BatchModify",
                  TargetKey(k, expandChromePoliciesAdditionalTargetKeys(keys)), <<policies[i]>>)]
    ELSE OrgUnitModifyPlan(k, policies, keys)

chromePolicyCreateCommon ==
  /\ handler = "none" /\ ~exists
  /\ \E c \in Configs(MaxPolicies, MaxKeys), fetchErr \in BOOLEAN, readErr \in BOOLEAN :
     \E plan \in {CommonModifyPlan(kind, c[1], c[2])} :
     \E resp \in Responses(plan, FALSE) :
       LET cs == CreateCalls(c[1], c[2], fetchErr, plan, resp)
           applied == CreateApplied(c[1], c[2], fetchErr, resp)
           r == ApplyCalls(remote, cs)
           readOk == ~readErr /\ ReadCommonOk(r, kind, c[1], c[2])
       IN /\ InputsUsed(c[1], c[2], fetchErr, resp, readErr)
          /\ Finish("chromePolicyCreateCommon", c[1], c[2], cs, applied /\ readOk, applied,
               IF applied /\ readOk THEN ResolvedSchemas(r, kind, c[1], c[2]) ELSE dPolicies)

----------------------------------------------------------------------------
(* Delete handlers: built from d's stored policies and keys.               *)

resourceChromePolicyDelete ==
  /\ handler = "none" /\ kind = targetOrgUnit /\ exists
  /\ \E plan \in {OrgUnitInheritPlan(targetOrgUnit, SchemaNamesOf(oldPolicies), oldKeys)} :
     \E resp \in Responses(plan, FALSE) :
       LET cs == Dispatched(plan, resp, FALSE)
           ok == FirstFatal(resp, FALSE) = 0
       IN Finish("resourceChromePolicyDelete", oldPolicies, oldKeys, cs, ok, ~ok, dPolicies)

\* A batch answered 400 "apps are not installed" is skipped and the loop
\* goes on; any other failure ends the handler.
resourceChromeGroupPolicyDelete ==
  /\ handler = "none" /\ kind = targetGroup /\ exists
  /\ \E plan \in GroupDeletePlans(SchemaNamesOf(oldPolicies), oldKeys) :
     \E resp \in Responses(plan, TRUE) :
       LET cs == Dispatched(plan, resp, TRUE)
           ok == FirstFatal(resp, TRUE) = 0
       IN Finish("resourceChromeGroupPolicyDelete", oldPolicies, oldKeys, cs, ok, ~ok, dPolicies)

\* chromePolicyDeleteCommon of the earlier revision of the shared helpers:
\* one Orgunits.BatchInherit for every kind.
chromePolicyDeleteCommonV1 ==
  /\ handler = "none" /\ exists
  /\ \E plan \in {OrgUnitInheritPlan(kind, SchemaNamesOf(oldPolicies), oldKeys)} :
     \E resp \in Responses(plan, FALSE) :
       LET cs == Dispatched(plan, resp, FALSE)
           ok == FirstFatal(resp, FALSE) = 0
       IN Finish("chromePolicyDeleteCommonV1", oldPolicies, oldKeys, cs, ok, ~ok, dPolicies)

Next ==
  \/ resourceChromePolicyCreate
  \/ resourceChromeGroupPolicyCreate
  \/ chromePolicyCreateCommon
  \/ resourceChromePolicyDelete
  \/ resourceChromeGroupPolicyDelete
  \/ chromePolicyDeleteCommonV1

Spec == Init /\ [][Next]_vars

----------------------------------------------------------------------------
(* Properties of apply and removal planning, checked under Spec.           *)

\* C2: for a Group target with N policy assignments and no additional target
\* keys, apply dispatches exactly N batch-modify calls, each holding exactly
\* one assignment, in the order of the assignments, each at the bare group
\* resource.  An apply cut short by a failed batch has dispatched a prefix.
C2_GroupNoKeysOneCallPerAssignment ==
  (handler = "resourceChromeGroupPolicyCreate" /\ cfgKeys = <<>>) =>
    /\ Len(calls) <= Len(cfgPolicies)
    /\ exists => Len(calls) = Len(cfgPolicies)
    /\ \A i \in DOMAIN calls :
         /\ calls[i].prim = "Groups.BatchModify"
         /\ calls[i].items = <<cfgPolicies[i]>>
         /\ calls[i].target = TargetKey(targetGroup, {})

C2_Witness ==
  /\ handler = "resourceChromeGroupPolicyCreate" /\ cfgKeys = <<>> /\ exists
  /\ Len(cfgPolicies) = 2 /\ cfgPolicies[1] # cfgPolicies[2]
  /\ Len(calls) = 2 /\ calls[2].items = <<cfgPolicies[2]>>

\* C3: for a Group target with N policy assignments and bindings holding K
\* distinct (keyName, value) pairs, a pair listed more than once counting
\* once, apply dispatches exactly K batch-modify calls: one per distinct
\* pair, each holding all N assignments, each at the group narrowed by
\* exactly that one pair.
C3_GroupKeysOneCallPerDistinctPair ==
  (handler = "resourceChromeGroupPolicyCreate" /\ cfgKeys # <<>> /\ exists) =>
    /\ Len(calls) = Cardinality(Range(cfgKeys))
    /\ \A kv \in Range(cfgKeys) :
         Cardinality({ i \in DOMAIN calls : calls[i].target = TargetKey(targetGroup, {kv}) }) = 1
    /\ \A i \in DOMAIN calls :
         /\ calls[i].prim = "Groups.BatchModify"
         /\ calls[i].items = cfgPolicies
         /\ \E kv \in Range(cfgKeys) : calls[i].target = TargetKey(targetGroup, {kv})

\* The failing case of C3: a binding listed twice is dispatched twice.
C3_Witness ==
  /\ handler = "resourceChromeGroupPolicyCreate" /\ exists
  /\ Len(cfgKeys) = 2 /\ cfgKeys[1] = cfgKeys[2]
  /\ Len(calls) = 2 /\ calls[1].target = calls[2].target

\* C4: for an OrgUnit target, apply dispatches exactly one batch-modify call
\* holding all N assignments in their given order, for every N and with or
\* without additional target keys.
C4_OrgUnitSingleBatch ==
  (/\ handler \in {"resourceChromePolicyCreate", "chromePolicyCreateCommon"}
   /\ kind = targetOrgUnit) =>
    /\ Len(calls) <= 1
    /\ exists => Len(calls) = 1
    /\ \A i \in DOMAIN calls :
         /\ calls[i].prim = "Orgunits.BatchModify"
         /\ calls[i].items = cfgPolicies
         /\ calls[i].target.resource = targetOrgUnit

C4_Witness ==
  /\ handler = "resourceChromePolicyCreate" /\ exists
  /\ Len(cfgPolicies) = 2 /\ cfgPolicies[1] # cfgPolicies[2] /\ Len(cfgKeys) = 2
  /\ Len(calls) = 1 /\ calls[1].items = cfgPolicies

\* C6: removal follows the grouping of apply, computed from the previously
\* applied policy set: Group without additional keys, one delete call per old
\* schema; Group with additional keys, one delete call per (keyName, value)
\* pair holding all old schemas; OrgUnit, exactly one call holding all old
\* schemas.  Stated for a removal that ran to its end.
C6_RemovalMirrorsApply ==
  LET old == SchemaNamesOf(oldPolicies) IN
  /\ (handler = "resourceChromeGroupPolicyDelete" /\ result = "ok" /\ oldKeys = <<>>) =>
       /\ Len(calls) = Len(old)
       /\ \A i \in DOMAIN calls :
            calls[i].items = <<old[i]>> /\ calls[i].target = TargetKey(targetGroup, {})
  /\ (handler = "resourceChromeGroupPolicyDelete" /\ result = "ok" /\ oldKeys # <<>>) =>
       /\ Len(calls) = Cardinality(Range(oldKeys))
       /\ \A kv \in Range(oldKeys) :
            Cardinality({ i \in DOMAIN calls : calls[i].target = TargetKey(targetGroup, {kv}) }) = 1
       /\ \A i \in DOMAIN calls : calls[i].items = old
  /\ (handler = "resourceChromePolicyDelete" /\ result = "ok") =>
       Len(calls) = 1 /\ calls[1].items = old

\* The failing case of C6: a stored binding listed twice gets two deletes.
C6_Witness ==
  /\ handler = "resourceChromeGroupPolicyDelete" /\ result = "ok"
  /\ Len(oldKeys) = 2 /\ oldKeys[1] = oldKeys[2]
  /\ Len(calls) = 2 /\ calls[1].target = calls[2].target


\* C11: when batch i of a multi-batch apply for a Group target fails after
\* its retries, the operation returns that batch's error, no batch after i
\* is dispatched, and no compensating call (delete or inherit) is issued:
\* the batches before i stay applied.
C11_FailedBatchAbortsWithoutRollback ==
  (/\ handler = "resourceChromeGroupPolicyCreate"
   /\ \E i \in DOMAIN calls : calls[i].outcome # "ok") =>
    LET i == CHOOSE j \in DOMAIN calls : calls[j].outcome # "ok" IN
    /\ result = "error"
    /\ diags = FromErr(BatchError(calls[i]))
    /\ Len(calls) = i
    /\ \A j \in DOMAIN calls : calls[j].prim = "Groups.BatchModify"
    /\ \A j \in 1..(i - 1) : \A sch \in ItemSchemas(calls[j]) :
         Resolve(remote, calls[j].target, sch)

C11_Witness ==
  /\ handler = "resourceChromeGroupPolicyCreate" /\ result = "error"
  /\ Len(calls) = 2 /\ calls[1].outcome = "ok" /\ calls[2].outcome = "error"
  /\ Len(cfgKeys) = 3
  /\ Resolve(remote, calls[1].target, SchemaOf(cfgPolicies[1]))

\* The bindings agree with what the schema of policy p declares.
BindingsMatchSchema(p, keys) ==
  LET schemaDef == SchemaDef(SchemaOf(p)) IN
  IF Len(keys) > 0
    THEN schemaDef.hasKeyNames /\ \A i \in 1..Len(keys) : keys[i][1] \in schemaDef.keyNames
    ELSE ~schemaDef.hasKeyNames

\* C14: validation of additional target keys is two-sided for every policy
\* of the operation: with bindings supplied it fails unless the policy's
\* schema declares additional target key names and every supplied key name
\* is among them; with none supplied it fails when the schema declares
\* additional target key names.
C14_TargetKeyValidationTwoSided ==
  (/\ handler \in {"resourceChromePolicyCreate", "resourceChromeGroupPolicyCreate"}
   /\ \E i \in 1..Len(cfgPolicies) : ~BindingsMatchSchema(cfgPolicies[i], cfgKeys)) =>
    /\ result = "error"
    /\ diags = FromErr(HandlerError)
    /\ calls = <<>>

\* A create of a valid first policy and a second one whose schema declares
\* additional target key names, without bindings, is rejected.
C14_Witness ==
  /\ handler = "resourceChromePolicyCreate"
  /\ cfgKeys = <<>> /\ Len(cfgPolicies) = 2
  /\ BindingsMatchSchema(cfgPolicies[1], cfgKeys)
  /\ SchemaDef(SchemaOf(cfgPolicies[2])).hasKeyNames
  /\ result = "error" /\ calls = <<>>

\* C18: for a target kind that is neither org-unit nor group, the shared
\* create and delete logic fails with an invalid-argument error and
\* dispatches no batch; it never treats the kind as an org-unit or a group.
C18_UnknownKindIsRejected ==
  (/\ handler \in {"chromePolicyCreateCommon", "chromePolicyDeleteCommonV1"}
   /\ kind \notin {targetOrgUnit, targetGroup}) =>
    /\ result = "error"
    /\ diags.severity = "error"
    /\ calls = <<>>

\* The failing case of C18: a create for the kind "something_else" set the
\* policies with the org-unit primitive and returned without error.
C18_Witness ==
  /\ handler = "chromePolicyCreateCommon" /\ kind = otherKind
  /\ Len(calls) = 1 /\ calls[1].prim = "Orgunits.BatchModify" /\ calls[1].outcome = "ok"
  /\ calls[1].target.resource = otherKind
  /\ result = "ok"

\* The batches of cs that succeeded.
Succeeded(cs) == Cardinality({ i \in DOMAIN cs : cs[i].outcome = "ok" })

\* The returned diagnostics tell how many batches succeeded: every failing
\* run of plans that returns the diagnostics ds has n succeeded batches.
ReportsSucceeded(ds, n, plans, soft) ==
  \A plan \in plans : \A resp \in Responses(plan, soft) :
    LET cs == Dispatched(plan, resp, soft) IN
    (FirstFatal(resp, soft) # 0 /\ ReturnedDiags(cs, FALSE) = ds) => Succeeded(cs) = n

\* C12: when an apply or remove operation fails after some of its batches
\* were dispatched successfully, the error returned to the caller reports
\* how many batches succeeded before the failure.
C12_ErrorReportsSucceededBatches ==
  /\ (/\ handler = "resourceChromeGroupPolicyCreate" /\ result = "error"
      /\ Succeeded(calls) >= 1 /\ Succeeded(calls) < Len(calls)) =>
       ReportsSucceeded(diags, Succeeded(calls), GroupModifyPlans(cfgPolicies, cfgKeys), FALSE)
  /\ (/\ handler = "resourceChromeGroupPolicyDelete" /\ result = "error"
      /\ Succeeded(calls) >= 1) =>
       ReportsSucceeded(diags, Succeeded(calls),
                        GroupDeletePlans(SchemaNamesOf(oldPolicies), oldKeys), TRUE)

\* The failing case of C12: the second of two batches failed and the
\* diagnostics are those of a run whose first batch failed.
C12_Witness ==
  /\ handler = "resourceChromeGroupPolicyCreate" /\ result = "error"
  /\ Len(calls) = 2 /\ calls[1].outcome = "ok" /\ calls[2].outcome = "error"
  /\ diags = FromErr(BatchError(calls[2]))
  /\ diags = ReturnedDiags(<<calls[2]>>, FALSE)

----------------------------------------------------------------------------
(* Update handlers.  During an update d.Get returns the new configuration  *)
(* and d.GetChange("policies") the prior policies.                         *)

InitUpdate == InitWith(MaxUpdPolicies, MaxUpdKeys) /\ exists

\* The update ran into the create logic: its removal step, if any, did not fail.
\* pre are the removal dispatches; the rest is the create.
UpdateThenCreate(h, cp, ck, pre, fetchErr, plan, resp, readD, readOk) ==
  LET cs == pre \o CreateCalls(cp, ck, fetchErr, plan, resp)
      applied == CreateApplied(cp, ck, fetchErr, resp)
  IN Finish(h, cp, ck, cs, applied /\ readOk, TRUE,
            IF applied /\ readOk THEN readD ELSE dPolicies)

\* resourceChromePolicyUpdate: one Orgunits.BatchInherit of the prior schemas
\* at the target narrowed by the configured keys, then resourceChromePolicyCreate.
resourceChromePolicyUpdate ==
  /\ handler = "none" /\ kind = targetOrgUnit /\ exists
  /\ \E c \in Configs(MaxUpdPolicies, MaxUpdKeys) :
     \E inherit \in {OrgUnitInheritPlan(targetOrgUnit, SchemaNamesOf(oldPolicies), c[2])} :
     \E iresp \in Responses(inherit, FALSE) :
       LET pre == Dispatched(inherit, iresp, FALSE) IN
       IF FirstFatal(iresp, FALSE) # 0
         THEN Finish("resourceChromePolicyUpdate", c[1], c[2], pre, FALSE, TRUE, dPolicies)
         ELSE \E fetchErr \in BOOLEAN, readErr \in BOOLEAN :
              \E plan \in {OrgUnitModifyPlan(targetOrgUnit, c[1], c[2])} :
              \E resp \in Responses(plan, FALSE) :
                /\ InputsUsed(c[1], c[2], fetchErr, resp, readErr)
                /\ UpdateThenCreate("resourceChromePolicyUpdate", c[1], c[2], pre,
                     fetchErr, plan, resp,
                     resourceChromePolicyRead(
                       ApplyCalls(remote, pre \o CreateCalls(c[1], c[2], fetchErr, plan, resp)),
                       dPolicies, c[1], c[2], readErr),
                     ~readErr)

\* resourceChromeGroupPolicyUpdate: resourceChromeGroupPolicyCreate and
\* nothing else (the removal of the prior policies is commented out).
resourceChromeGroupPolicyUpdate ==
  /\ handler = "none" /\ kind = targetGroup /\ exists
  /\ \E c \in Configs(MaxUpdPolicies, MaxUpdKeys), fetchErr \in BOOLEAN, readErr \in BOOLEAN :
     \E plan \in GroupModifyPlans(c[1], c[2]) :
     \E resp \in Responses(plan, FALSE) :
       /\ InputsUsed(c[1], c[2], fetchErr, resp, readErr)
       /\ UpdateThenCreate("resourceChromeGroupPolicyUpdate", c[1], c[2], <<>>,
            fetchErr, plan, resp,
            resourceChromeGroupPolicyRead(
              ApplyCalls(remote, CreateCalls(c[1], c[2], fetchErr, plan, resp)),
              dPolicies, c[1], c[2], readErr),
            ~readErr)

\* chromePolicyCreateCommon of the earlier revision of the shared helpers:
\* one batch with every policy, Groups.BatchModify for a group and
\* Orgunits.BatchModify otherwise.
CommonModifyPlanV1(k, policies, keys) ==
  << Batch(IF k = targetGroup THEN "Groups.BatchModify" ELSE "Orgunits.BatchModify",
           TargetKey(k, expandChromePoliciesAdditionalTargetKeys(keys)), policies) >>

\* chromePolicyUpdateCommon of the earlier revision: one Orgunits.BatchInherit
\* of the prior schemas for every kind, then its chromePolicyCreateCommon.
chromePolicyUpdateCommonV1 ==
  /\ handler = "none" /\ exists
  /\ \E c \in Configs(MaxUpdPolicies, MaxUpdKeys) :
     \E inherit \in {OrgUnitInheritPlan(kind, SchemaNamesOf(oldPolicies), c[2])} :
     \E iresp \in Responses(inherit, FALSE) :
       LET pre == Dispatched(inherit, iresp, FALSE) IN
       IF FirstFatal(iresp, FALSE) # 0
         THEN Finish("chromePolicyUpdateCommonV1", c[1], c[2], pre, FALSE, TRUE, dPolicies)
         ELSE \E fetchErr \in BOOLEAN, readErr \in BOOLEAN :
              \E plan \in {CommonModifyPlanV1(kind, c[1], c[2])} :
              \E resp \in Responses(plan, FALSE) :
                LET r == ApplyCalls(remote, pre \o CreateCalls(c[1], c[2], fetchErr, plan, resp)) IN
                /\ InputsUsed(c[1], c[2], fetchErr, resp, readErr)
                /\ UpdateThenCreate("chromePolicyUpdateCommonV1", c[1], c[2], pre,
                     fetchErr, plan, resp,
                     ResolvedSchemas(r, kind, c[1], c[2]),
                     ~readErr /\ ReadCommonOk(r, kind, c[1], c[2]))

\* The removal step of chromePolicyUpdateCommon: for an org unit one
\* Orgunits.BatchInherit of the prior schemas, for a group one
\* Groups.BatchDelete of them, for any other kind nothing; the target is
\* narrowed by the configured keys.
CommonRemovalPlan(k, schemas, keys) ==
  IF k = targetOrgUnit THEN OrgUnitInheritPlan(k, schemas, keys)
  ELSE IF k = targetGroup
    THEN << Batch("Groups.BatchDelete",
                  TargetKey(k, expandChromePoliciesAdditionalTargetKeys(keys)), schemas) >>
  ELSE <<>>

\* chromePolicyUpdateCommon: the removal step, then chromePolicyCreateCommon.
chromePolicyUpdateCommon ==
  /\ handler = "none" /\ exists
  /\ \E c \in Configs(MaxUpdPolicies, MaxUpdKeys) :
     \E removal \in {CommonRemovalPlan(kind, SchemaNamesOf(oldPolicies), c[2])} :
     \E rresp \in Responses(removal, FALSE) :
       LET pre == Dispatched(removal, rresp, FALSE) IN
       IF FirstFatal(rresp, FALSE) # 0
         THEN Finish("chromePolicyUpdateCommon", c[1], c[2], pre, FALSE, TRUE, dPolicies)
         ELSE \E fetchErr \in BOOLEAN, readErr \in BOOLEAN :
              \E plan \in {CommonModifyPlan(kind, c[1], c[2])} :
              \E resp \in Responses(plan, FALSE) :
                LET r == ApplyCalls(remote, pre \o CreateCalls(c[1], c[2], fetchErr, plan, resp)) IN
                /\ InputsUsed(c[1], c[2], fetchErr, resp, readErr)
                /\ UpdateThenCreate("chromePolicyUpdateCommon", c[1], c[2], pre,
                     fetchErr, plan, resp,
                     ResolvedSchemas(r, kind, c[1], c[2]),
                     ~readErr /\ ReadCommonOk(r, kind, c[1], c[2]))

NextUpdate ==
  \/ resourceChromePolicyUpdate
  \/ resourceChromeGroupPolicyUpdate
  \/ chromePolicyUpdateCommonV1
  \/ chromePolicyUpdateCommon

SpecUpdate == InitUpdate /\ [][NextUpdate]_vars


----------------------------------------------------------------------------
(* Properties of update, checked under SpecUpdate.                         *)

\* C1: in every create or update of a chrome policy resource, if the new
\* policy assignments fail validation (unknown field, type mismatch,
\* unsupported or missing additional target keys), no mutating remote call
\* (batch-modify, batch-delete, batch-inherit) is issued in that operation
\* and the remote policies are left exactly as they were.
C1_NoRemoteCallOnInvalidInput ==
  (/\ handler \in {"resourceChromePolicyUpdate", "resourceChromeGroupPolicyUpdate"}
   /\ ~validateChromePolicies(cfgPolicies, cfgKeys, FALSE)) =>
    /\ calls = <<>>
    /\ remote = AppliedRemote(kind, oldPolicies, oldKeys)

\* The failing case of C1: an org-unit update with an invalid configuration
\* has already inherited the prior policies.
C1_Witness ==
  /\ handler = "resourceChromePolicyUpdate"
  /\ ~validateChromePolicies(cfgPolicies, cfgKeys, FALSE)
  /\ Len(calls) = 1 /\ calls[1].prim = "Orgunits.BatchInherit" /\ calls[1].outcome = "ok"
  /\ result = "error" /\ remote = {}

\* C5: after a successful update of a chrome policy resource (org-unit or
\* group), every schema of the previously applied policies that is absent
\* from the new list is no longer set on the target: a resolve for it
\* returns no policy.
C5_RemovedSchemasUnset ==
  (/\ handler \in {"resourceChromePolicyUpdate", "resourceChromeGroupPolicyUpdate"}
   /\ result = "ok") =>
    \A sch \in Range(SchemaNamesOf(oldPolicies)) \ Range(SchemaNamesOf(cfgPolicies)) :
      \A keys \in SUBSET KeyPairs : ~Resolve(remote, TargetKey(kind, keys), sch)

\* The failing case of C5: a group update that drops a schema leaves it set.
C5_Witness ==
  /\ handler = "resourceChromeGroupPolicyUpdate" /\ result = "ok" /\ oldKeys = <<>>
  /\ \E sch \in Range(SchemaNamesOf(oldPolicies)) \ Range(SchemaNamesOf(cfgPolicies)) :
       Resolve(remote, TargetKey(targetGroup, {}), sch)

\* C7: the dispatch primitive matches the target kind: every removal for an
\* OrgUnit target is an org-unit batch-inherit, and every modify or removal
\* for a Group target goes through the group batch-modify / batch-delete
\* primitives, never through an org-unit primitive.
C7_PrimitiveMatchesTargetKind ==
  \A i \in DOMAIN calls :
    /\ (kind = targetOrgUnit /\ ~IsModify(calls[i])) => calls[i].prim = "Orgunits.BatchInherit"
    /\ kind = targetGroup => calls[i].prim \in {"Groups.BatchModify", "Groups.BatchDelete"}

\* The failing case of C7: the shared update sends a group's removal as an
\* org-unit batch-inherit.
C7_Witness ==
  /\ handler = "chromePolicyUpdateCommonV1" /\ kind = targetGroup
  /\ Len(calls) >= 1 /\ calls[1].prim = "Orgunits.BatchInherit"
  /\ calls[1].target.resource = targetGroup


----------------------------------------------------------------------------
(* Group and dynamic group resources: mutating calls, then a wait for the  *)
(* writes to become visible.  Every step of SpecGroup is the handler's     *)
(* straight-line code up to the wait, one poll of the wait, the wait's     *)
(* deadline, or the handler's code after the wait.                         *)

AliasNames == {"alias1", "alias2", "alias3"}

\* Alias lists without repetition.
AliasLists == { a \in SeqsUpTo(AliasNames, MaxAliases) : \A i, j \in DOMAIN a : a[i] = a[j] => i = j }

Call(op, alias) == [op |-> op, alias |-> alias, outcome |-> "ok"]

\* consistencyCheck.reachedConsistency: currConsistent has reached the
\* required count.
reachedConsistency(c, n) == c.currConsistent >= n

\* consistencyCheck.handleNewEtag: the new etag becomes the baseline and is
\* not itself stable evidence.
handleNewEtag(c, etag) == [currConsistent |-> 0, lastEtag |-> etag]

\* What a conditional Get may answer.  "not modified" needs an etag to
\* compare with.
PollAnswers(c) ==
  {"newEtag", "notFound", "error"} \cup (IF c.lastEtag # 0 THEN {"notModified"} ELSE {})

\* The calls of a plan that were issued when call number f failed (0: none
\* failed): the plan up to and including call f, that one marked failed.
Issued(plan, f) ==
  [i \in 1..(IF f = 0 THEN Len(plan) ELSE f) |->
     IF i = f THEN [plan[i] EXCEPT !.outcome = "error"] ELSE plan[i]]

InitGroup ==
  /\ FieldIdle
  /\ OrderingIdle
  /\ FileIdle
  /\ ReadIdle
  /\ kind = targetGroup /\ exists = FALSE
  /\ oldPolicies = <<>> /\ oldKeys = <<>> /\ remote = {} /\ dPolicies = <<>>
  /\ handler = "none" /\ cfgPolicies = <<>> /\ cfgKeys = <<>>
  /\ calls = <<>> /\ result = "none" /\ diags = NoDiags
  /\ gHandler = "none"
  /\ gExists \in BOOLEAN
  /\ oldAliases \in (IF gExists THEN AliasLists ELSE {<<>>})
  /\ cfgAliases = <<>>
  /\ mutating = <<>>
  /\ numInserts = 0
  /\ cc = [currConsistent |-> 0, lastEtag |-> 0]
  /\ ticks = 0
  /\ stableRun = 0
  /\ lastAnswer = "none"
  /\ waitState = "none"
  /\ gResult = "none"
  /\ oldSecurityGroup \in (IF gExists THEN BOOLEAN ELSE {FALSE})
  /\ cfgSecurityGroup = FALSE
  /\ labelsSent = <<>>

\* The labels of the Cloud Identity service the handlers deal with.
SecurityLabel == "cloudidentity.googleapis.com/groups.security"

DiscussionForumLabel == "cloudidentity.googleapis.com/groups.discussion_forum"

\* The handler runs with "security_group" sec and sent the label sets ls
\* before its wait.
Configured(sec, ls) ==
  /\ cfgSecurityGroup' = sec
  /\ labelsSent' = ls

\* The handler issued the calls cs, counted n of them and, unless one
\* failed, starts its wait with a fresh consistencyCheck.
StartWait(h, aliases, cs, n) ==
  LET failed == \E i \in DOMAIN cs : cs[i].outcome # "ok" IN
  /\ gHandler' = h
  /\ cfgAliases' = aliases
  /\ mutating' = cs
  /\ numInserts' = n
  /\ waitState' = IF failed THEN "none" ELSE "Waiting"
  /\ gResult' = IF failed THEN "error" ELSE "none"
  /\ UNCHANGED <<gExists, oldAliases, cc, ticks, stableRun, lastAnswer,
     oldSecurityGroup>>
  /\ UNCHANGED <<policyVars, fieldVars, orderingVars, fileVars, readVars>>

\* resourceGroupCreate up to the wait: Groups.Insert, then one Aliases.Insert
\* per configured alias; numInserts counts each call that succeeded.
resourceGroupCreate ==
  /\ gHandler = "none" /\ ~gExists
  /\ \E aliases \in AliasLists :
       LET plan == <<Call("Groups.Insert", "")>> \o
                   [i \in DOMAIN aliases |-> Call("Aliases.Insert", aliases[i])]
       IN \E f \in 0..Len(plan) :
            LET cs == Issued(plan, f)
                n == Cardinality({ i \in DOMAIN cs : cs[i].outcome = "ok" })
            IN /\ StartWait("resourceGroupCreate", aliases, cs, n)
               /\ \E sec \in BOOLEAN : Configured(sec, <<>>)

\* resourceGroupUpdate up to the wait: Aliases.Delete for every prior alias
\* no longer configured, Aliases.Insert for every configured alias that is
\* new, then Groups.Update; numInserts counts the inserts and the update.
resourceGroupUpdate ==
  /\ gHandler = "none" /\ gExists
  /\ \E aliases \in AliasLists :
       LET dels == SelectSeq(oldAliases, LAMBDA a : a \notin Range(aliases))
           inss == SelectSeq(aliases, LAMBDA a : a \notin Range(oldAliases))
           plan == [i \in DOMAIN dels |-> Call("Aliases.Delete", dels[i])] \o
                   [i \in DOMAIN inss |-> Call("Aliases.Insert", inss[i])] \o
                   <<Call("Groups.Update", "")>>
       IN \E f \in 0..Len(plan) :
            LET cs == Issued(plan, f)
                n == Cardinality({ i \in DOMAIN cs :
                       cs[i].outcome = "ok" /\ cs[i].op \in {"Aliases.Insert", "Groups.Update"} })
            IN /\ StartWait("resourceGroupUpdate", aliases, cs, n)
               /\ \E sec \in BOOLEAN : Configured(sec, <<>>)

\* One poll answered within the wait.
Polled(c, run, answer) ==
  /\ cc' = c
  /\ stableRun' = run
  /\ lastAnswer' = answer
  /\ ticks' = ticks + 1
  /\ UNCHANGED <<gHandler, gExists, oldAliases, cfgAliases, mutating, numInserts,
                 waitState, gResult, oldSecurityGroup, cfgSecurityGroup, labelsSent>>
  /\ UNCHANGED <<policyVars, fieldVars, orderingVars, fileVars, readVars>>

\* The wait ended in state.
WaitEnded(state) ==
  /\ waitState' = state
  /\ UNCHANGED <<gHandler, gExists, oldAliases, cfgAliases, mutating, numInserts, cc,
                 ticks, stableRun, lastAnswer, gResult, oldSecurityGroup, cfgSecurityGroup,
                 labelsSent>>
  /\ UNCHANGED <<policyVars, fieldVars, orderingVars, fileVars, readVars>>

\* stableRun after an answer.
StableRunAfter(answer) ==
  CASE answer = "notModified" -> stableRun + 1
    [] answer \in {"newEtag", "notFound"} -> 0
    [] OTHER -> stableRun

\* The callback of resourceGroupCreate's wait.
resourceGroupCreatePoll ==
  /\ gHandler = "resourceGroupCreate" /\ waitState = "Waiting"
  /\ IF reachedConsistency(cc, numInserts)
       THEN WaitEnded("Converged")
       ELSE /\ ticks < MaxTicks
            /\ \E answer \in PollAnswers(cc) :
                Polled(CASE answer = "notModified" -> [cc EXCEPT !.currConsistent = @ + 1]
                         [] answer = "notFound" -> [cc EXCEPT !.currConsistent = 0]
                         [] answer = "error" -> cc
                         [] OTHER -> handleNewEtag(cc, cc.lastEtag + 1),
                       StableRunAfter(answer), answer)

\* The callback of resourceGroupUpdate's wait: it has no "not found" case.
resourceGroupUpdatePoll ==
  /\ gHandler = "resourceGroupUpdate" /\ waitState = "Waiting"
  /\ IF reachedConsistency(cc, numInserts)
       THEN WaitEnded("Converged")
       ELSE /\ ticks < MaxTicks
            /\ \E answer \in PollAnswers(cc) :
                Polled(CASE answer = "notModified" -> [cc EXCEPT !.currConsistent = @ + 1]
                         [] answer \in {"notFound", "error"} -> cc
                         [] OTHER -> handleNewEtag(cc, cc.lastEtag + 1),
                       StableRunAfter(answer), answer)


\* resourceGroupDynamicUpdate up to the wait: Groups.Patch when a field
\* changed, then a wait for the change to be readable; when no field
\* changed, the closing read at once.
\* changed: display_name, description or query changed; labelsChanged:
\* "locked" or "labels" changed.  When "security_group", "locked" or
\* "labels" changed the patch carries the labels rebuilt from the
\* configuration (the locked and custom labels are left out here).
resourceGroupDynamicUpdate ==
  /\ gHandler = "none" /\ gExists
  /\ \E changed \in BOOLEAN, labelsChanged \in BOOLEAN, sec \in BOOLEAN :
       LET inMask == sec # oldSecurityGroup \/ labelsChanged
           labels == {DiscussionForumLabel} \cup (IF sec THEN {SecurityLabel} ELSE {})
       IN
       IF changed \/ inMask
         THEN \E f \in 0..1 :
                /\ StartWait("resourceGroupDynamicUpdate", oldAliases,
                             Issued(<<Call("Groups.Patch", "")>>, f), 0)
                /\ Configured(sec, IF inMask THEN <<labels>> ELSE <<>>)
         ELSE \E readErr \in BOOLEAN :
                /\ gHandler' = "resourceGroupDynamicUpdate"
                /\ gResult' = IF readErr THEN "error" ELSE "ok"
                /\ Configured(sec, <<>>)
                /\ UNCHANGED <<gExists, oldAliases, cfgAliases, mutating, numInserts, cc,
                               ticks, stableRun, lastAnswer, waitState,
                               oldSecurityGroup>>
                /\ UNCHANGED <<policyVars, fieldVars, orderingVars, fileVars, readVars>>

\* The callback of resourceGroupDynamicUpdate's wait: a Get that shows the
\* change ends the wait, any other answer is an error to retry.
resourceGroupDynamicUpdatePoll ==
  /\ gHandler = "resourceGroupDynamicUpdate" /\ waitState = "Waiting" /\ ticks < MaxTicks
  /\ \E reflected \in BOOLEAN :
       /\ waitState' = IF reflected THEN "Converged" ELSE "Waiting"
       /\ ticks' = ticks + 1
       /\ UNCHANGED <<gHandler, gExists, oldAliases, cfgAliases, mutating, numInserts, cc,
                      stableRun, lastAnswer, gResult, oldSecurityGroup,
                      cfgSecurityGroup, labelsSent>>
       /\ UNCHANGED <<policyVars, fieldVars, orderingVars, fileVars, readVars>>

\* retryTimeDuration without a deadline: the wait stays as it is.
retryTimeDurationNoDeadline ==
  /\ waitState = "Waiting"
  /\ UNCHANGED <<policyVars, groupVars, fieldVars, orderingVars, fileVars, readVars>>

\* retryTimeDuration: the deadline elapses before the callback returned nil.
retryTimeDurationDeadline ==
  /\ waitState = "Waiting"
  /\ gHandler \in {"resourceGroupCreate", "resourceGroupUpdate"} => ~reachedConsistency(cc, numInserts)
  /\ WaitEnded("TimedOut")

\* The handler's code after its wait: it returned res, having sent the
\* label sets ls.
Returned(res, ls) ==
  /\ gResult' = res
  /\ labelsSent' = labelsSent \o ls
  /\ UNCHANGED <<gHandler, gExists, oldAliases, cfgAliases, mutating, numInserts, cc,
                 ticks, stableRun, lastAnswer, waitState, oldSecurityGroup,
                 cfgSecurityGroup>>
  /\ UNCHANGED <<policyVars, fieldVars, orderingVars, fileVars, readVars>>

\* addSecurityLabelToGroup: the label sets it sends.  It sends none when the
\* lookup or the get fails ("lookupError") or the group has the label
\* already ("present"); otherwise it patches the group's labels with the
\* security label added ("ok", or "patchError" when the patch is refused).
\* Its error only adds a warning to the diagnostics.
addSecurityLabelToGroup(outcome) ==
  IF outcome \in {"ok", "patchError"} THEN << {DiscussionForumLabel, SecurityLabel} >> ELSE <<>>

LabelOutcomes == {"ok", "patchError", "lookupError", "present"}

\* resourceGroupCreate and resourceGroupUpdate return the wait's error;
\* otherwise they handle "security_group" and return what the closing read
\* returns.
resourceGroupCreateReturn ==
  /\ gHandler = "resourceGroupCreate" /\ waitState \in {"Converged", "TimedOut"} /\ gResult = "none"
  /\ IF waitState = "TimedOut" THEN Returned("error", <<>>)
     ELSE \E readErr \in BOOLEAN, outcome \in LabelOutcomes :
            /\ ~cfgSecurityGroup => outcome = "ok"
            /\ Returned(IF readErr THEN "error" ELSE "ok",
                        IF cfgSecurityGroup THEN addSecurityLabelToGroup(outcome) ELSE <<>>)

\* A change of "security_group" from true to false is an error; one from
\* false to true adds the label.
resourceGroupUpdateReturn ==
  /\ gHandler = "resourceGroupUpdate" /\ waitState \in {"Converged", "TimedOut"} /\ gResult = "none"
  /\ IF waitState = "TimedOut" THEN Returned("error", <<>>)
     ELSE IF oldSecurityGroup /\ ~cfgSecurityGroup THEN Returned("error", <<>>)
     ELSE \E readErr \in BOOLEAN, outcome \in LabelOutcomes :
            LET adds == ~oldSecurityGroup /\ cfgSecurityGroup IN
            /\ ~adds => outcome = "ok"
            /\ Returned(IF readErr THEN "error" ELSE "ok",
                        IF adds THEN addSecurityLabelToGroup(outcome) ELSE <<>>)

\* resourceGroupDynamicUpdate logs the wait's error and returns what the
\* closing read returns.
resourceGroupDynamicUpdateReturn ==
  /\ gHandler = "resourceGroupDynamicUpdate" /\ waitState \in {"Converged", "TimedOut"}
  /\ gResult = "none"
  /\ \E readErr \in BOOLEAN : Returned(IF readErr THEN "error" ELSE "ok", <<>>)

NextGroup ==
  \/ resourceGroupCreate
  \/ resourceGroupCreatePoll
  \/ resourceGroupCreateReturn
  \/ resourceGroupUpdate
  \/ resourceGroupUpdatePoll
  \/ resourceGroupUpdateReturn
  \/ resourceGroupDynamicUpdate
  \/ resourceGroupDynamicUpdatePoll
  \/ resourceGroupDynamicUpdateReturn
  \/ retryTimeDurationDeadline

SpecGroup == InitGroup /\ [][NextGroup]_vars

----------------------------------------------------------------------------
(* Properties of the consistency wait, checked under SpecGroup.            *)

\* C8: the consistency wait reaches Converged after exactly
\* requiredStableCount consecutive "not modified" ticks following the last
\* etag change ("not modified" ticks seen before an etag change, or before a
\* "not found", do not count), and reaches TimedOut if fewer such ticks
\* occurred before the deadline.
C8_ConvergedAfterStableRun ==
  gHandler \in {"resourceGroupCreate", "resourceGroupUpdate"} =>
    /\ waitState = "Converged" => stableRun = numInserts
    /\ waitState = "TimedOut" => stableRun < numInserts

\* The failing case of C8: the update's wait converged although a "not
\* found" answer interrupted the run of "not modified" answers.
C8_Witness ==
  /\ gHandler = "resourceGroupUpdate" /\ waitState = "Converged"
  /\ stableRun < numInserts /\ cc.currConsistent = numInserts

\* C9: in group create and in group update, the required count handed to
\* the consistency wait equals the number of mutating calls issued against
\* the group in that operation: the group insert or update, every alias
\* insert and every alias delete.
C9_RequiredCountIsMutatingCalls ==
  (gHandler \in {"resourceGroupCreate", "resourceGroupUpdate"} /\ waitState # "none") =>
    numInserts = Len(mutating)

\* The failing case of C9: an update that deleted an alias waits for fewer
\* changes than it made.
C9_Witness ==
  /\ gHandler = "resourceGroupUpdate" /\ waitState = "Waiting"
  /\ \E i \in DOMAIN mutating : mutating[i].op = "Aliases.Delete"
  /\ numInserts < Len(mutating)

\* C10: whenever a consistency wait ends because its deadline elapsed before
\* convergence, the enclosing create or update returns an error to the
\* caller, never success.
C10_TimeoutIsReturned ==
  (waitState = "TimedOut" /\ gResult # "none") => gResult = "error"

\* The failing case of C10: the dynamic group update returned success after
\* its wait timed out.
C10_Witness ==
  /\ gHandler = "resourceGroupDynamicUpdate" /\ waitState = "TimedOut" /\ gResult = "ok"

\* A label set that leaves the security label out.
OmitsSecurityLabel(ls) == SecurityLabel \notin ls

\* C20: the security label is immutable once added: for the group and the
\* dynamic group resource, an update that changes security_group from true
\* to false returns an error and never sends the remote service a label set
\* that omits the security label.
C20_SecurityLabelIsImmutable ==
  (/\ gHandler \in {"resourceGroupUpdate", "resourceGroupDynamicUpdate"}
   /\ oldSecurityGroup /\ ~cfgSecurityGroup) =>
    /\ gResult # "ok"
    /\ \A i \in DOMAIN labelsSent : ~OmitsSecurityLabel(labelsSent[i])

\* The failing case of C20: a dynamic group update from true to false
\* patched the group with the labels rebuilt without the security label and
\* returned without error.
C20_Witness ==
  /\ gHandler = "resourceGroupDynamicUpdate"
  /\ oldSecurityGroup /\ ~cfgSecurityGroup
  /\ Len(mutating) = 1 /\ mutating[1].op = "Groups.Patch" /\ mutating[1].outcome = "ok"
  /\ labelsSent = << {DiscussionForumLabel} >>
  /\ gResult = "ok"

----------------------------------------------------------------------------
(* Field values.  validatePolicyFieldValueType is applied to the values of *)
(* a configuration, convertPolicyFieldValueType to the values the remote   *)
(* service resolves.  A string carries its text as a sequence of           *)
(* characters; a number is held as decimal digits, so that the 32 and 64   *)
(* bit limits are the real ones.                                           *)

WireTypes ==
  { "TYPE_BOOL", "TYPE_FLOAT", "TYPE_DOUBLE",
    "TYPE_INT64", "TYPE_FIXED64", "TYPE_SFIXED64", "TYPE_SINT64", "TYPE_UINT64",
    "TYPE_INT32", "TYPE_FIXED32", "TYPE_SFIXED32", "TYPE_SINT32", "TYPE_UINT32",
    "TYPE_MESSAGE", "TYPE_ENUM", "TYPE_STRING", "TYPE_GROUP" }

Family64 == {"TYPE_INT64", "TYPE_FIXED64", "TYPE_SFIXED64", "TYPE_SINT64", "TYPE_UINT64"}

Family32 == {"TYPE_INT32", "TYPE_FIXED32", "TYPE_SFIXED32", "TYPE_SINT32", "TYPE_UINT32"}

DigitChar == <<"0", "1", "2", "3", "4", "5", "6", "7", "8", "9">>

IsDigit(c) == \E d \in 1..10 : DigitChar[d] = c

DigitOf(c) == (CHOOSE d \in 1..10 : DigitChar[d] = c) - 1

\* A decimal number: sign, integer digits without leading zeros, fraction
\* digits without trailing zeros.
Numeral(neg, int, frac) == [neg |-> neg, int |-> int, frac |-> frac]

StripLeading(ds) ==
  LET nz == { i \in 1..Len(ds) : ds[i] # 0 }
  IN IF nz = {} THEN <<0>>
     ELSE LET f == CHOOSE i \in nz : \A j \in nz : i <= j IN SubSeq(ds, f, Len(ds))

StripTrailing(ds) ==
  LET nz == { i \in 1..Len(ds) : ds[i] # 0 }
  IN IF nz = {} THEN <<>>
     ELSE LET l == CHOOSE i \in nz : \A j \in nz : i >= j IN SubSeq(ds, 1, l)

\* a < b for integer digits without leading zeros.
Less(a, b) ==
  \/ Len(a) < Len(b)
  \/ /\ Len(a) = Len(b)
     /\ \E i \in 1..Len(a) : a[i] < b[i] /\ \A j \in 1..(i - 1) : a[j] = b[j]

\* 1 << 31, 1 << 32, 1 << 63 and 1 << 64.
Pow31 == <<2, 1, 4, 7, 4, 8, 3, 6, 4, 8>>

Pow32 == <<4, 2, 9, 4, 9, 6, 7, 2, 9, 6>>

Pow63 == <<9, 2, 2, 3, 3, 7, 2, 0, 3, 6, 8, 5, 4, 7, 7, 5, 8, 0, 8>>

Pow64 == <<1, 8, 4, 4, 6, 7, 4, 4, 0, 7, 3, 7, 0, 9, 5, 5, 1, 6, 1, 6>>

\* x - 1 for integer digits of a number that does not end in 0.
Pred(ds) == [ds EXCEPT ![Len(ds)] = @ - 1]

JsonString(text) == [kind |-> "String", n |-> 0, elems |-> <<>>, text |-> text]

\* Go values convertPolicyFieldValueType produces from a string.
GoBool(b) == [kind |-> "Bool", b |-> b]

GoInt64(num) == [kind |-> "Int64", num |-> num]

GoFloat64(num) == [kind |-> "Float64", num |-> num]

Parsed(v) == [value |-> v, err |-> "nil"]

ParseError(e) == [value |-> JsonValue("Invalid", 0), err |-> e]

\* strconv.ParseBool
ParseBool(str) ==
  IF str \in { <<"1">>, <<"t">>, <<"T">>, <<"t", "r", "u", "e">>,
               <<"T", "R", "U", "E">>, <<"T", "r", "u", "e">> }
    THEN Parsed(GoBool(TRUE))
  ELSE IF str \in { <<"0">>, <<"f">>, <<"F">>, <<"f", "a", "l", "s", "e">>,
                    <<"F", "A", "L", "S", "E">>, <<"F", "a", "l", "s", "e">> }
    THEN Parsed(GoBool(FALSE))
  ELSE ParseError("syntax")

\* strconv.ParseInt(str, 10, bitSize), cutoff being 1 << (bitSize - 1): an
\* optional sign and one or more digits, the value within the signed range.
ParseInt(str, cutoff) ==
  LET signed == str # <<>> /\ str[1] \in {"+", "-"}
      neg == str # <<>> /\ str[1] = "-"
      body == IF signed THEN Tail(str) ELSE str
  IN IF body = <<>> \/ \E i \in 1..Len(body) : ~IsDigit(body[i])
       THEN ParseError("syntax")
     ELSE LET un == StripLeading([i \in 1..Len(body) |-> DigitOf(body[i])]) IN
          IF ~neg /\ ~Less(un, cutoff) THEN ParseError("range")
          ELSE IF neg /\ Less(cutoff, un) THEN ParseError("range")
          ELSE Parsed(GoInt64(Numeral(neg /\ un # <<0>>, un, <<>>)))

\* strconv.ParseFloat(str, 64) on decimal text: an optional sign, digits with
\* at most one point among them and at least one digit.  Texts with an
\* exponent, "inf" or "nan" are not among the values considered, and the
\* decimals considered are exactly representable.
ParseFloat(str) ==
  LET signed == str # <<>> /\ str[1] \in {"+", "-"}
      neg == str # <<>> /\ str[1] = "-"
      body == IF signed THEN Tail(str) ELSE str
      dots == { i \in 1..Len(body) : body[i] = "." }
  IN IF \/ \E i \in 1..Len(body) : ~IsDigit(body[i]) /\ body[i] # "."
        \/ Cardinality(dots) > 1
        \/ Len(body) - Cardinality(dots) = 0
       THEN ParseError("syntax")
     ELSE LET dot == IF dots = {} THEN Len(body) + 1 ELSE CHOOSE i \in dots : TRUE
              int == StripLeading([i \in 1..(dot - 1) |-> DigitOf(body[i])])
              frac == StripTrailing([i \in 1..(Len(body) - dot) |-> DigitOf(body[dot + i])])
          IN Parsed(GoFloat64(Numeral(neg /\ (int # <<0>> \/ frac # <<>>), int, frac)))

convertPolicyFieldValueType(fieldType, fieldValue) ==
  IF fieldValue.kind # "String" THEN Parsed(fieldValue)
  ELSE CASE fieldType = "TYPE_BOOL" -> ParseBool(fieldValue.text)
         [] fieldType \in {"TYPE_FLOAT", "TYPE_DOUBLE"} -> ParseFloat(fieldValue.text)
         [] fieldType \in Family64 -> ParseInt(fieldValue.text, Pow63)
         [] fieldType \in Family32 -> ParseInt(fieldValue.text, Pow31)
         [] OTHER -> Parsed(fieldValue)

\* The string the remote service serializes a value as.
FormatBool(b) == IF b THEN <<"t", "r", "u", "e">> ELSE <<"f", "a", "l", "s", "e">>

FormatNumeral(num) ==
  (IF num.neg THEN <<"-">> ELSE <<>>)
    \o [i \in 1..Len(num.int) |-> DigitChar[num.int[i] + 1]]
    \o (IF num.frac = <<>> THEN <<>>
        ELSE <<".">> \o [i \in 1..Len(num.frac) |-> DigitChar[num.frac[i] + 1]])

\* The numbers considered: small ones and the limits of the 32 and 64 bit
\* ranges, signed and unsigned.
Integers32 ==
  { Numeral(FALSE, <<0>>, <<>>), Numeral(FALSE, <<7>>, <<>>), Numeral(FALSE, <<4, 2>>, <<>>),
    Numeral(TRUE, <<1>>, <<>>),
    Numeral(FALSE, Pred(Pow31), <<>>), Numeral(FALSE, Pow31, <<>>), Numeral(TRUE, Pow31, <<>>),
    Numeral(FALSE, Pred(Pow32), <<>>) }

Integers64 ==
  Integers32 \cup
  { Numeral(FALSE, Pow32, <<>>),
    Numeral(FALSE, Pred(Pow63), <<>>), Numeral(FALSE, Pow63, <<>>), Numeral(TRUE, Pow63, <<>>),
    Numeral(FALSE, Pred(Pow64), <<>>) }

Decimals ==
  { Numeral(FALSE, <<4>>, <<2>>), Numeral(FALSE, <<1>>, <<2, 5>>), Numeral(TRUE, <<0>>, <<5>>) }

\* The values json.Unmarshal yields for a field: nil, a boolean, a float64
\* (in tenths), an object, an array or a string.
DecodedValues ==
  { JsonValue("Invalid", 0), JsonValue("Bool", 0), JsonValue("Bool", 1),
    JsonValue("Float64", 0), JsonValue("Float64", 30), JsonValue("Float64", 31),
    JsonValue("Float64", -10), JsonValue("Float64", 105),
    JsonValue("Map", 0), JsonArray(<<>>), JsonArray(<<JsonValue("Float64", 30)>>) }
  \cup { JsonString(FormatBool(b)) : b \in BOOLEAN }
  \cup { JsonString(FormatNumeral(num)) : num \in Integers64 \cup Decimals }
  \cup { JsonString(<<>>), JsonString(<<"a", "b", "c">>),
         JsonString(<<"n", "o", "t", "b", "o", "o", "l">>),
         JsonString(<<"+", "7">>), JsonString(<<"0", "7">>) }

FieldTarget == TargetKey(targetOrgUnit, {})

\* A warning diagnostic: HasError is false for it.
Warning(summary) == [severity |-> "warning", summary |-> [kind |-> "handler", outcome |-> summary]]

HasError(ds) == ds.severity = "error"

\* A variant that keeps the string of a value that does not convert.
flattenChromePoliciesKeepText(policiesObj, fetchErr, defined, t) ==
  IF policiesObj = <<>> THEN [policies |-> <<>>, diags |-> NoDiags]
  ELSE IF fetchErr THEN [policies |-> <<>>, diags |-> FromErr(HandlerError)]
  ELSE IF ~defined
         THEN [policies |-> <<>>, diags |-> Warning("schema definition is not defined")]
  ELSE [policies |-> [i \in 1..Len(policiesObj) |-> FieldSchema], diags |-> NoDiags]

\* flattenChromePolicies on the resolved policies (each a field value):
\* the schema names of the flattened policies, or nil with the diagnostics
\* of the first policy that fails.
flattenChromePolicies(policiesObj, fetchErr, defined, t) ==
  LET diagOf(v) ==
        IF fetchErr THEN FromErr(HandlerError)
        ELSE IF ~defined THEN Warning("schema definition is not defined")
        ELSE IF convertPolicyFieldValueType(t, v).err # "nil"
               THEN FromErr([kind |-> "convert", outcome |-> convertPolicyFieldValueType(t, v).err])
        ELSE NoDiags
      bad == { i \in 1..Len(policiesObj) : diagOf(policiesObj[i]) # NoDiags }
  IN IF bad = {}
       THEN [policies |-> [i \in 1..Len(policiesObj) |-> FieldSchema], diags |-> NoDiags]
       ELSE [policies |-> <<>>,
             diags |-> diagOf(policiesObj[CHOOSE i \in bad : \A j \in bad : i <= j])]

InitValue ==
  /\ GroupIdle
  /\ OrderingIdle
  /\ FileIdle
  /\ ReadIdle
  /\ kind = targetOrgUnit
  /\ exists \in BOOLEAN
  /\ IF exists
       THEN /\ oldPolicies = <<FieldPolicy>>
            /\ dPolicies = <<FieldSchema>>
            /\ remote \in { {}, {<<FieldTarget, FieldSchema>>} }
       ELSE /\ oldPolicies = <<>>
            /\ dPolicies = <<>>
            /\ remote = {}
  /\ oldKeys = <<>>
  /\ handler = "none" /\ cfgPolicies = <<>> /\ cfgKeys = <<>>
  /\ calls = <<>> /\ result = "none" /\ diags = NoDiags
  /\ inType \in WireTypes
  /\ inValue \in DecodedValues
  /\ hasDefinition \in BOOLEAN
  /\ inMessageType = <<>>
  /\ fieldOp = "none"
  /\ fieldOut = [valid |-> FALSE]

\* resourceChromePolicyRead of the stored policy: Resolve, then
\* flattenChromePolicies, then d.Set("policies") unless the diagnostics hold
\* an error.
resourceChromePolicyReadField ==
  /\ fieldOp = "none" /\ handler = "none" /\ exists
  /\ \E resolveErr \in BOOLEAN, fetchErr \in BOOLEAN :
       LET policiesObj == IF Resolve(remote, FieldTarget, FieldSchema) THEN <<inValue>> ELSE <<>>
           fl == flattenChromePolicies(policiesObj, fetchErr, hasDefinition, inType)
       IN /\ fetchErr => ~resolveErr /\ policiesObj # <<>>
          /\ handler' = "resourceChromePolicyRead"
          /\ fieldOp' = IF resolveErr THEN "Resolve" ELSE "flattenChromePolicies"
          /\ fieldOut' = IF resolveErr THEN [valid |-> FALSE] ELSE fl
          /\ result' = IF resolveErr \/ HasError(fl.diags) THEN "error" ELSE "ok"
          /\ diags' = IF resolveErr THEN FromErr(HandlerError)
                      ELSE IF HasError(fl.diags) THEN fl.diags ELSE NoDiags
          /\ dPolicies' = IF resolveErr \/ HasError(fl.diags) THEN dPolicies ELSE fl.policies
  /\ UNCHANGED <<kind, exists, oldPolicies, oldKeys, cfgPolicies, cfgKeys, calls, remote>>
  /\ UNCHANGED <<inType, inValue, hasDefinition, inMessageType, groupVars, orderingVars, fileVars, readVars>>

\* resourceChromePolicyCreate of the policy: validateChromePolicies, one
\* Orgunits.BatchModify, then the read.
resourceChromePolicyCreateField ==
  /\ fieldOp = "none" /\ handler = "none" /\ ~exists
  /\ \E fetchErr \in BOOLEAN, readErr \in BOOLEAN :
     \E plan \in { <<Batch("Orgunits.BatchModify", FieldTarget, <<FieldPolicy>>)>> } :
     \E resp \in Responses(plan, FALSE) :
       LET valid == ~fetchErr /\ hasDefinition /\ validatePolicyFieldValueType(inType, inValue)
           cs == IF valid THEN Dispatched(plan, resp, FALSE) ELSE <<>>
           applied == valid /\ FirstFatal(resp, FALSE) = 0
       IN /\ valid \/ \A i \in DOMAIN resp : resp[i] = "ok"
          /\ applied \/ ~readErr
          /\ fetchErr => hasDefinition
          /\ handler' = "resourceChromePolicyCreate"
          /\ fieldOp' = "validateChromePolicies"
          /\ fieldOut' = [valid |-> valid]
          /\ cfgPolicies' = <<FieldPolicy>>
          /\ calls' = cs
          /\ remote' = ApplyCalls(remote, cs)
          /\ result' = IF applied /\ ~readErr THEN "ok" ELSE "error"
          /\ diags' = ReturnedDiags(cs, applied /\ ~readErr)
          /\ exists' = applied
          /\ dPolicies' = IF applied /\ ~readErr THEN <<FieldSchema>> ELSE dPolicies
  /\ UNCHANGED <<kind, oldPolicies, oldKeys, cfgKeys>>
  /\ UNCHANGED <<inType, inValue, hasDefinition, inMessageType, groupVars, orderingVars, fileVars, readVars>>

validatePolicyFieldValueTypeCall ==
  /\ fieldOp = "none"
  /\ fieldOp' = "validatePolicyFieldValueType"
  /\ fieldOut' = [valid |-> validatePolicyFieldValueType(inType, inValue)]
  /\ UNCHANGED <<inType, inValue, hasDefinition, inMessageType,
                 policyVars, groupVars, orderingVars, fileVars, readVars>>

convertPolicyFieldValueTypeCall ==
  /\ fieldOp = "none"
  /\ fieldOp' = "convertPolicyFieldValueType"
  /\ fieldOut' = convertPolicyFieldValueType(inType, inValue)
  /\ UNCHANGED <<inType, inValue, hasDefinition, inMessageType,
                 policyVars, groupVars, orderingVars, fileVars, readVars>>

NextValue ==
  \/ validatePolicyFieldValueTypeCall
  \/ convertPolicyFieldValueTypeCall
  \/ resourceChromePolicyReadField
  \/ resourceChromePolicyCreateField

SpecValue == InitValue /\ [][NextValue]_vars

\* The kind of JSON value a wire type takes.
AcceptedKind(t, v) ==
  CASE t = "TYPE_BOOL" -> v.kind = "Bool"
    [] t \in {"TYPE_FLOAT", "TYPE_DOUBLE"} -> v.kind = "Float64"
    [] t \in Family64 \cup Family32 -> v.kind = "Float64" /\ v.n % 10 = 0
    [] t = "TYPE_MESSAGE" -> v.kind = "Map"
    [] OTHER -> v.kind = "String"

\* C13: for every wire type, validatePolicyFieldValueType accepts a
\* JSON-decoded value exactly when it has the kind assigned to the wire type:
\* boolean for BOOL, number for FLOAT and DOUBLE, number without fractional
\* part for the 32 and 64 bit integer types (JSON numbers are decoded as
\* float64), object for MESSAGE, string for STRING, ENUM and any other type.
C13_ValidateAcceptsExactlyTheKind ==
  fieldOp = "validatePolicyFieldValueType" => fieldOut.valid = AcceptedKind(inType, inValue)

\* The failing case of C13: the number 3 is rejected for a 32 bit integer type.
C13_Witness ==
  /\ fieldOp = "validatePolicyFieldValueType"
  /\ inType = "TYPE_INT32" /\ inValue = JsonValue("Float64", 30)
  /\ ~fieldOut.valid

\* The range of a boolean or numeric wire type: the unsigned range for the
\* unsigned and fixed types, the signed range for the others.
Unsigned32 == {"TYPE_UINT32", "TYPE_FIXED32"}

Unsigned64 == {"TYPE_UINT64", "TYPE_FIXED64"}

InRange(t, num) ==
  CASE t \in Unsigned32 -> ~num.neg /\ Less(num.int, Pow32)
    [] t \in Family32 \ Unsigned32 ->
         IF num.neg THEN ~Less(Pow31, num.int) ELSE Less(num.int, Pow31)
    [] t \in Unsigned64 -> ~num.neg /\ Less(num.int, Pow64)
    [] t \in Family64 \ Unsigned64 ->
         IF num.neg THEN ~Less(Pow63, num.int) ELSE Less(num.int, Pow63)
    [] OTHER -> FALSE

\* C15: convertPolicyFieldValueType is a left inverse of the string
\* serialization: for every boolean or numeric wire type and every value x in
\* the type's range (the unsigned range for UINT32, UINT64, FIXED32 and
\* FIXED64), converting the string of x returns x without error; and any
\* input that is not a string is returned unchanged.
C15_ConvertInvertsSerialization ==
  fieldOp = "convertPolicyFieldValueType" =>
    /\ inValue.kind # "String" => fieldOut = Parsed(inValue)
    /\ inType = "TYPE_BOOL" =>
         \A b \in BOOLEAN :
           inValue = JsonString(FormatBool(b)) => fieldOut = Parsed(GoBool(b))
    /\ inType \in {"TYPE_FLOAT", "TYPE_DOUBLE"} =>
         \A num \in Integers32 \cup Decimals :
           inValue = JsonString(FormatNumeral(num)) => fieldOut = Parsed(GoFloat64(num))
    /\ inType \in Family32 \cup Family64 =>
         \A num \in { x \in Integers64 : InRange(inType, x) } :
           inValue = JsonString(FormatNumeral(num)) => fieldOut = Parsed(GoInt64(num))

\* The failing case of C15: 1 << 63 is in the range of TYPE_UINT64 and its
\* string is refused as out of range.
C15_Witness ==
  /\ fieldOp = "convertPolicyFieldValueType"
  /\ inType = "TYPE_UINT64"
  /\ inValue = JsonString(FormatNumeral(Numeral(FALSE, Pow63, <<>>)))
  /\ fieldOut.err = "range"

C17_MissingDefinitionFailsOperation ==
  /\ (handler = "resourceChromePolicyCreate" /\ ~hasDefinition) =>
       result = "error" /\ HasError(diags) /\ calls = <<>>
  /\ (/\ handler = "resourceChromePolicyRead" /\ fieldOp = "flattenChromePolicies"
      /\ Resolve(remote, FieldTarget, FieldSchema)
      /\ ~hasDefinition) =>
       result = "error" /\ HasError(diags) /\ dPolicies = <<FieldSchema>>

\* The failing case of C17: a read that found no definition returned without
\* error and emptied the stored policies.
C17_Witness ==
  /\ handler = "resourceChromePolicyRead" /\ fieldOp = "flattenChromePolicies"
  /\ ~hasDefinition
  /\ fieldOut.diags = Warning("schema definition is not defined")
  /\ result = "ok"
  /\ dPolicies = <<>>

----------------------------------------------------------------------------
(* Group priority ordering.  One behaviour is one handler invocation on an *)
(* ordering resource.  "policy_schema" and "policy_target_key" force a new *)
(* resource when changed, so a handler runs with the stored ones;          *)
(* "policy_namespace" is passed through to the request and left out.       *)

MaxGroupIds == 3

GroupIdNames == {"high", "medium", "low"}

GroupIdLists == SeqsUpTo(GroupIdNames, MaxGroupIds)

OrderingSchemas == {"chrome.users.Wallpaper", "chrome.apps.ExampleAppPolicy"}

\* The "policy_target_key" blocks a configuration may hold.
TargetKeyBlocks ==
  { [target_resource |-> "orgunits/sales", additional_target_key_names |-> ks]
    : ks \in { {}, {<<"app_id", "chrome:example_app_id">>} } }

\* expandPolicyTargetKey: nil (<<>>) for an empty list, else a pointer to
\* the key of the first block.
expandPolicyTargetKey(targetKeys) ==
  IF Len(targetKeys) = 0 THEN <<>>
  ELSE << [TargetResource |-> targetKeys[1].target_resource,
           AdditionalTargetKeys |-> targetKeys[1].additional_target_key_names] >>

generateChromePolicyGroupPriorityOrderingID(policySchema, targetResource) ==
  <<policySchema, targetResource>>

UpdateGroupPriorityOrderingRequest(key, policySchema, groupIds, outcome) ==
  [PolicyTargetKey |-> key, PolicySchema |-> policySchema, GroupIds |-> groupIds,
   outcome |-> outcome]

\* No chrome policy handler has run and none will.
PolicyIdle ==
  /\ kind = targetGroup /\ exists = FALSE
  /\ oldPolicies = <<>> /\ oldKeys = <<>> /\ remote = {} /\ dPolicies = <<>>
  /\ handler = "none" /\ cfgPolicies = <<>> /\ cfgKeys = <<>>
  /\ calls = <<>> /\ result = "none" /\ diags = NoDiags

\* A resource that does not exist yet, or one with state: a resource gets
\* its state from a create that set its ID or from an import, which always
\* sets a "policy_target_key" block, and its "group_ids" are those read
\* from the remote service.
InitOrdering ==
  /\ PolicyIdle /\ GroupIdle /\ FieldIdle /\ FileIdle /\ ReadIdle
  /\ ordHandler = "none" /\ ordRequests = <<>> /\ ordResult = "none"
  /\ ordSchema \in OrderingSchemas
  /\ \E stored \in BOOLEAN :
       IF stored
         THEN /\ ordTargetKey \in { <<b>> : b \in TargetKeyBlocks }
              /\ ordId = generateChromePolicyGroupPriorityOrderingID(
                           ordSchema, ordTargetKey[1].target_resource)
              /\ ordGroupIds \in GroupIdLists
              /\ ordRemote = ordGroupIds
         ELSE /\ ordTargetKey \in {<<>>} \cup { <<b>> : b \in TargetKeyBlocks }
              /\ ordId = NoId
              /\ ordGroupIds = <<>>
              /\ ordRemote \in {<<>>}

\* resourceChromePolicyGroupPriorityOrderingRead after a successful request:
\* d's "group_ids" become the remote ordering unless the list call fails.
OrderingRead(remoteIds, listErr) == IF listErr THEN ordGroupIds ELSE remoteIds

resourceChromePolicyGroupPriorityOrderingCreate ==
  /\ ordHandler = "none" /\ ordId = NoId
  /\ \E groupIds \in GroupIdLists, outcome \in {"ok", "error"}, listErr \in BOOLEAN :
       LET policyTargetKey == expandPolicyTargetKey(ordTargetKey)
           req == UpdateGroupPriorityOrderingRequest(policyTargetKey, ordSchema, groupIds, outcome)
           \* policyTargetKey.TargetResource on a nil pointer panics
           panics == outcome = "ok" /\ policyTargetKey = <<>>
       IN /\ listErr => outcome = "ok" /\ ~panics
          /\ ordHandler' = "resourceChromePolicyGroupPriorityOrderingCreate"
          /\ ordRequests' = <<req>>
          /\ ordRemote' = IF outcome = "ok" THEN groupIds ELSE ordRemote
          /\ ordId' = IF outcome = "ok" /\ ~panics
                        THEN generateChromePolicyGroupPriorityOrderingID(
                               ordSchema, policyTargetKey[1].TargetResource)
                        ELSE ordId
          /\ ordGroupIds' = IF outcome = "ok" /\ ~panics
                              THEN OrderingRead(groupIds, listErr) ELSE groupIds
          /\ ordResult' = IF panics THEN "panic"
                          ELSE IF outcome = "ok" /\ ~listErr THEN "ok" ELSE "error"
  /\ UNCHANGED <<ordSchema, ordTargetKey>>
  /\ UNCHANGED <<policyVars, groupVars, fieldVars, fileVars, readVars>>

resourceChromePolicyGroupPriorityOrderingUpdate ==
  /\ ordHandler = "none" /\ ordId # NoId
  /\ \E groupIds \in GroupIdLists, outcome \in {"ok", "error"}, listErr \in BOOLEAN :
       LET policyTargetKey == expandPolicyTargetKey(ordTargetKey)
           req == UpdateGroupPriorityOrderingRequest(policyTargetKey, ordSchema, groupIds, outcome)
       IN /\ listErr => outcome = "ok"
          /\ ordHandler' = "resourceChromePolicyGroupPriorityOrderingUpdate"
          /\ ordRequests' = <<req>>
          /\ ordRemote' = IF outcome = "ok" THEN groupIds ELSE ordRemote
          /\ ordGroupIds' = IF outcome = "ok" THEN OrderingRead(groupIds, listErr) ELSE groupIds
          /\ ordResult' = IF outcome = "ok" /\ ~listErr THEN "ok" ELSE "error"
  /\ UNCHANGED <<ordSchema, ordTargetKey, ordId>>
  /\ UNCHANGED <<policyVars, groupVars, fieldVars, fileVars, readVars>>

\* The delete sets an empty group list.
resourceChromePolicyGroupPriorityOrderingDelete ==
  /\ ordHandler = "none" /\ ordId # NoId
  /\ \E outcome \in {"ok", "error"} :
       LET policyTargetKey == expandPolicyTargetKey(ordTargetKey)
           req == UpdateGroupPriorityOrderingRequest(policyTargetKey, ordSchema, <<>>, outcome)
       IN /\ ordHandler' = "resourceChromePolicyGroupPriorityOrderingDelete"
          /\ ordRequests' = <<req>>
          /\ ordRemote' = IF outcome = "ok" THEN <<>> ELSE ordRemote
          /\ ordId' = IF outcome = "ok" THEN NoId ELSE ordId
          /\ ordResult' = IF outcome = "ok" THEN "ok" ELSE "error"
  /\ UNCHANGED <<ordSchema, ordTargetKey, ordGroupIds>>
  /\ UNCHANGED <<policyVars, groupVars, fieldVars, fileVars, readVars>>

NextOrdering ==
  \/ resourceChromePolicyGroupPriorityOrderingCreate
  \/ resourceChromePolicyGroupPriorityOrderingUpdate
  \/ resourceChromePolicyGroupPriorityOrderingDelete

SpecOrdering == InitOrdering /\ [][NextOrdering]_vars

\* C19: creating a group priority ordering whose policy_target_key is
\* omitted completes without fault: the ordering update request is issued
\* with the given group_ids in order, and, the service having accepted it,
\* the resource receives an ID.
C19_CreateWithoutTargetKeyCompletes ==
  (/\ ordHandler = "resourceChromePolicyGroupPriorityOrderingCreate"
   /\ ordTargetKey = <<>>) =>
    /\ ordResult # "panic"
    /\ Len(ordRequests) = 1
    /\ ordRequests[1].PolicySchema = ordSchema
    /\ ordRequests[1].outcome = "ok" => (ordId # NoId /\ ordRemote = ordRequests[1].GroupIds)

\* The failing case of C19: the request with three group ids was accepted
\* and the handler ended in a panic with no ID set.
C19_Witness ==
  /\ ordHandler = "resourceChromePolicyGroupPriorityOrderingCreate"
  /\ ordTargetKey = <<>>
  /\ ordSchema = "chrome.users.Wallpaper"
  /\ Len(ordRequests) = 1 /\ ordRequests[1].outcome = "ok"
  /\ ordRequests[1].GroupIds = <<"high", "medium", "low">>
  /\ ordRemote = <<"high", "medium", "low">>
  /\ ordResult = "panic" /\ ordId = NoId

----------------------------------------------------------------------------
(* The chrome policy file resource: a local file uploaded to the Chrome    *)
(* Policy API; the download URI the upload returns is the resource ID.     *)
(* One behaviour is one handler invocation.                                *)

FilePaths == {"wallpaper-1.jpg", "wallpaper-2.jpg"}

FileContents == {"first image content", "second image content"}

\* os.Open fails on the path.
Missing == "missing"

\* hex.EncodeToString of the SHA256 of the content: one hash per content.
sha256(content) == <<"sha256", content>>

\* What d.Get("file_hash") returns for a value the plan marks as unknown.
UnknownHash == <<>>

DownloadUris == {"uri-1", "uri-2"}

\* What uploadCall.Do() can answer: an error, a response without a
\* download URI, or a response with one.
UploadAnswers == {"error", ""} \cup DownloadUris

\* d.HasChange("file_path") || d.HasChange("file_hash"): HasChange only file_path.
FileChangedPathOnly(old, new) ==
  old.file_path # new.file_path

\* d.HasChange("file_path") || d.HasChange("file_hash")
FileChanged(old, new) ==
  \/ old.file_path # new.file_path
  \/ old.file_hash # new.file_hash

\* The body of resourceChromePolicyFileCreate on d: the file is opened and
\* hashed, the service is built (local is "error" when Seek, Stat or
\* NewChromePolicyService fails), the upload is issued and, when it answers
\* with a download URI, that URI becomes the ID and "download_uri" and the
\* computed hash becomes "file_hash".
FileCreate(d, disk, local, answer) ==
  IF disk[d.file_path] = Missing \/ local = "error"
    THEN [d |-> d, uploads |-> <<>>, result |-> "error"]
    ELSE LET upload == [file_path |-> d.file_path, content |-> disk[d.file_path]]
         IN IF answer \in DownloadUris
              THEN [d |-> [d EXCEPT !.id = answer,
                                    !.download_uri = answer,
                                    !.file_hash = sha256(disk[d.file_path])],
                    uploads |-> <<upload>>, result |-> "ok"]
              ELSE [d |-> d, uploads |-> <<upload>>, result |-> "error"]

\* The body of resourceChromePolicyFileRead on d: an unreadable file is
\* only logged; a hash that differs from the stored one replaces it.
FileRead(d, disk) ==
  IF disk[d.file_path] = Missing
    THEN [d |-> d, uploads |-> <<>>, result |-> "ok"]
    ELSE [d |-> [d EXCEPT !.file_hash = sha256(disk[d.file_path])],
          uploads |-> <<>>, result |-> "ok"]

\* A resource without state and a planned create, or a resource left by a
\* successful create and a plan for it: the configured "file_path", and a
\* "file_hash" that is the prior one or unknown.
InitFile ==
  /\ PolicyIdle /\ GroupIdle /\ FieldIdle /\ OrderingIdle /\ ReadIdle
  /\ fileHandler = "none" /\ fileUploads = <<>> /\ fileResult = "none"
  /\ fileDisk \in [FilePaths -> FileContents \cup {Missing}]
  /\ \E stored \in BOOLEAN :
       IF stored
         THEN /\ \E path \in FilePaths, content \in FileContents, uri \in DownloadUris :
                   filePrior = [id |-> uri, file_path |-> path,
                                file_hash |-> sha256(content), download_uri |-> uri]
              /\ \E path \in FilePaths, hash \in {filePrior.file_hash, UnknownHash} :
                   filePlanned = [filePrior EXCEPT !.file_path = path,
                                                   !.file_hash = hash]
         ELSE /\ filePrior = NoFile
              /\ \E path \in FilePaths :
                   filePlanned = [NoFile EXCEPT !.file_path = path]
  /\ fileD = filePlanned

FileFinish(h, out) ==
  /\ fileHandler' = h
  /\ fileD' = out.d
  /\ fileUploads' = out.uploads
  /\ fileResult' = out.result
  /\ UNCHANGED <<filePrior, filePlanned, fileDisk>>
  /\ UNCHANGED <<policyVars, groupVars, fieldVars, orderingVars, readVars>>

resourceChromePolicyFileCreate ==
  /\ fileHandler = "none"
  /\ filePrior = NoFile
  /\ \E local \in {"ok", "error"}, answer \in UploadAnswers :
       FileFinish("resourceChromePolicyFileCreate",
                  FileCreate(fileD, fileDisk, local, answer))

\* A refresh of a resource with state: d is the prior state.
resourceChromePolicyFileRead ==
  /\ fileHandler = "none"
  /\ filePrior # NoFile
  /\ FileFinish("resourceChromePolicyFileRead", FileRead(filePrior, fileDisk))

resourceChromePolicyFileUpdate ==
  /\ fileHandler = "none"
  /\ filePrior # NoFile
  /\ IF FileChanged(filePrior, fileD)
       THEN \E local \in {"ok", "error"}, answer \in UploadAnswers :
              FileFinish("resourceChromePolicyFileUpdate",
                         FileCreate(fileD, fileDisk, local, answer))
       ELSE FileFinish("resourceChromePolicyFileUpdate", FileRead(fileD, fileDisk))

\* The API has no delete endpoint: the handler only clears the ID.
resourceChromePolicyFileDelete ==
  /\ fileHandler = "none"
  /\ filePrior # NoFile
  /\ FileFinish("resourceChromePolicyFileDelete",
                [d |-> [filePrior EXCEPT !.id = ""], uploads |-> <<>>, result |-> "ok"])

NextFile ==
  \/ resourceChromePolicyFileCreate
  \/ resourceChromePolicyFileRead
  \/ resourceChromePolicyFileUpdate
  \/ resourceChromePolicyFileDelete

SpecFile == InitFile /\ [][NextFile]_vars

\* C21: an update of the chrome policy file resource issues an upload only
\* when "file_path" or "file_hash" has changed, and then at most one, of the
\* file at the planned path; such an update that succeeds has issued it and
\* has replaced the ID and "download_uri" by the URI the upload returned and
\* "file_hash" by the hash of the uploaded content; an update with neither
\* changed issues no upload, succeeds and leaves "download_uri" and the ID
\* as they were.
C21_UpdateReuploadsExactlyOnChange ==
  fileHandler = "resourceChromePolicyFileUpdate" =>
    LET changed == \/ filePrior.file_path # filePlanned.file_path
                   \/ filePrior.file_hash # filePlanned.file_hash
    IN /\ fileUploads # <<>> => changed
       /\ changed /\ fileResult = "ok" =>
            /\ Len(fileUploads) = 1
            /\ fileUploads[1].file_path = filePlanned.file_path
            /\ fileD.id \in DownloadUris
            /\ fileD.download_uri = fileD.id
            /\ fileD.file_hash = sha256(fileUploads[1].content)
       /\ changed /\ fileResult = "error" => fileD = filePlanned
       /\ ~changed =>
            /\ fileUploads = <<>>
            /\ fileResult = "ok"
            /\ fileD.id = filePrior.id
            /\ fileD.download_uri = filePrior.download_uri

\* An update after the file content changed under an unknown planned hash
\* re-uploaded and replaced the URI by another one.
C21_Witness ==
  /\ fileHandler = "resourceChromePolicyFileUpdate"
  /\ filePrior.file_path = filePlanned.file_path
  /\ filePrior.file_hash # filePlanned.file_hash
  /\ fileResult = "ok"
  /\ Len(fileUploads) = 1
  /\ fileD.id # filePrior.id
  /\ fileD.file_hash # filePrior.file_hash

----------------------------------------------------------------------------
(* Further properties of the consistency wait, checked under SpecGroup.    *)

\* C22: in the wait of a group create and in the wait of a group update
\* alike, every poll answered "not found" sets the count of stable
\* observations (currConsistent) to 0 and leaves the wait in Waiting, with
\* no error returned.
C22_NotFoundResetsStableCount ==
  [][(/\ gHandler \in {"resourceGroupCreate", "resourceGroupUpdate"}
      /\ ticks' = ticks + 1
      /\ lastAnswer' = "notFound")
     => /\ cc'.currConsistent = 0
        /\ waitState' = "Waiting"
        /\ gResult' = "none"]_vars

\* A group update's wait polled "not found" after a "not modified" answer
\* and kept polling with the count as it was.
C22_Witness ==
  /\ gHandler = "resourceGroupUpdate"
  /\ waitState = "Waiting"
  /\ lastAnswer = "notFound"
  /\ stableRun = 0
  /\ cc.currConsistent = 1

\* The wait's loop keeps running while the wait lasts, and time passes:
\* a poll that can be issued is issued, and the deadline is reached.
SpecGroupFair ==
  /\ SpecGroup
  /\ WF_vars(resourceGroupCreatePoll)
  /\ WF_vars(resourceGroupUpdatePoll)
  /\ WF_vars(resourceGroupDynamicUpdatePoll)
  /\ WF_vars(retryTimeDurationDeadline)

\* C23: every consistency wait terminates: a wait in Waiting eventually is
\* in Converged or in TimedOut; once it is in one of the two it stays in
\* that one, and no further poll is issued.
C23_WaitTerminates ==
  /\ (waitState = "Waiting") ~> (waitState \in {"Converged", "TimedOut"})
  /\ [][(waitState \in {"Converged", "TimedOut"})
          => (waitState' = waitState /\ ticks' = ticks /\ cc' = cc)]_vars

\* A wait that used up its polls without a stable run and was ended by the
\* deadline.
C23_Witness ==
  /\ gHandler = "resourceGroupCreate"
  /\ waitState = "TimedOut"
  /\ ticks = MaxTicks
  /\ ~reachedConsistency(cc, numInserts)

----------------------------------------------------------------------------
(* The field map of a schema definition with several message types, and    *)
(* the checks and the conversion of one field value against it.  One       *)
(* behaviour is one call on one policy with the one field PolicyField.     *)

PolicyField == "field"

Labels == {"LABEL_OPTIONAL", "LABEL_REPEATED"}

\* The descriptors a message type may hold for the policy's field.
Descriptors == { Field(PolicyField, t, l) : t \in WireTypes, l \in Labels }

\* The descriptors an earlier message type may hold under the same name.
EarlierDescriptors ==
  { Field(PolicyField, t, l) : t \in {"TYPE_STRING", "TYPE_INT64", "TYPE_BOOL"}, l \in Labels }

OtherField == Field("other", "TYPE_BOOL", "LABEL_OPTIONAL")

\* schemaDef.Definition.MessageType: one message type with the field, two
\* message types that both have a field of that name, or none with it.
MessageTypeLists ==
  { << <<d>> >> : d \in Descriptors }
  \cup { << <<e, OtherField>>, <<d>> >> : e \in EarlierDescriptors, d \in Descriptors }
  \cup { << <<OtherField>> >> }

\* The JSON-decoded values of the field: scalars of every kind and arrays,
\* the empty one, uniform ones and ones with a single element of another kind.
SchemaValues ==
  { JsonValue("Invalid", 0), JsonValue("Bool", 1), JsonValue("Float64", 30),
    JsonValue("Float64", 31), JsonValue("Map", 0),
    JsonString(<<"a", "b", "c">>), JsonString(<<"7">>), JsonString(<<"t", "r", "u", "e">>),
    JsonArray(<<>>),
    JsonArray(<<JsonValue("Float64", 30)>>),
    JsonArray(<<JsonValue("Float64", 30), JsonValue("Float64", 70)>>),
    JsonArray(<<JsonValue("Float64", 30), JsonValue("Float64", 31)>>),
    JsonArray(<<JsonValue("Float64", 31), JsonValue("Float64", 30)>>),
    JsonArray(<<JsonString(<<"a">>), JsonString(<<"b">>)>>),
    JsonArray(<<JsonString(<<"a">>), JsonValue("Float64", 30)>>),
    JsonArray(<<JsonValue("Bool", 0), JsonValue("Bool", 1)>>),
    JsonArray(<<JsonValue("Bool", 1), JsonValue("Map", 0)>>),
    JsonArray(<<JsonValue("Map", 0)>>) }

\* An error diagnostic of validateChromePolicies about a value of a field:
\* its summary names the value and the field's name and type.
FieldDiag(summary, value, schemaField) ==
  [severity |-> "error",
   summary |-> [kind |-> summary, value |-> value,
                name |-> schemaField.name, type |-> schemaField.type]]

\* validateChromePolicies on one value against its descriptor: a repeated
\* field takes an array whose items all validate, the first item that does
\* not being reported; any other field takes a value that validates.
validateFieldValue(schemaField, polVal) ==
  IF schemaField.label = "LABEL_REPEATED"
    THEN IF polVal.kind \notin {"Array", "Slice"}
           THEN FieldDiag("value is of incorrect type", polVal, schemaField)
           ELSE LET bad == { i \in 1..Len(polVal.elems) :
                               ~validatePolicyFieldValueType(schemaField.type, polVal.elems[i]) }
                IN IF bad = {} THEN NoDiags
                   ELSE FieldDiag("array value is of incorrect type",
                                  polVal.elems[CHOOSE i \in bad : \A j \in bad : i <= j],
                                  schemaField)
    ELSE IF validatePolicyFieldValueType(schemaField.type, polVal)
           THEN NoDiags
           ELSE FieldDiag("value is of incorrect type", polVal, schemaField)

\* validateChromePolicies on one field of a policy, against the field map
\* of the schema's message types.
validateChromePoliciesField(messageType, polKey, polVal) ==
  LET fmap == schemaFieldMap(messageType)
  IN IF polKey \notin DOMAIN fmap
       THEN FromErr([kind |-> "field name is not found", outcome |-> polKey])
       ELSE validateFieldValue(fmap[polKey], polVal)

\* flattenChromePolicies on one field of a resolved policy, against the
\* field map of the schema's message types.
flattenChromePoliciesField(messageType, k, v) ==
  LET fmap == schemaFieldMap(messageType)
  IN IF k \notin DOMAIN fmap
       THEN [diags |-> Warning("field name is not found"), value |-> JsonValue("Invalid", 0)]
       ELSE LET val == convertPolicyFieldValueType(fmap[k].type, v)
            IN IF val.err # "nil"
                 THEN [diags |-> FromErr([kind |-> "convert", outcome |-> val.err]),
                       value |-> JsonValue("Invalid", 0)]
                 ELSE [diags |-> NoDiags, value |-> val.value]

InitSchema ==
  /\ PolicyIdle /\ GroupIdle /\ OrderingIdle /\ FileIdle /\ ReadIdle
  /\ inType = "TYPE_STRING"
  /\ hasDefinition = TRUE
  /\ fieldOp = "none"
  /\ fieldOut = [valid |-> FALSE]
  /\ inMessageType \in MessageTypeLists
  /\ inValue \in SchemaValues

FieldCall(op, out) ==
  /\ fieldOp' = op
  /\ fieldOut' = out
  /\ UNCHANGED <<inType, inValue, hasDefinition, inMessageType,
                 policyVars, groupVars, orderingVars, fileVars, readVars>>

validateChromePoliciesCall ==
  /\ fieldOp = "none"
  /\ FieldCall("validateChromePolicies",
               [diags |-> validateChromePoliciesField(inMessageType, PolicyField, inValue)])

flattenChromePoliciesCall ==
  /\ fieldOp = "none"
  /\ FieldCall("flattenChromePolicies",
               flattenChromePoliciesField(inMessageType, PolicyField, inValue))

NextSchema ==
  \/ validateChromePoliciesCall
  \/ flattenChromePoliciesCall

SpecSchema == InitSchema /\ [][NextSchema]_vars

\* The descriptor of the policy's field in the last message type that has
\* a field of that name.
HasField == \E i \in DOMAIN inMessageType : \E j \in DOMAIN inMessageType[i] :
              inMessageType[i][j].name = PolicyField

LaterDescriptor ==
  LET has(i) == \E j \in DOMAIN inMessageType[i] : inMessageType[i][j].name = PolicyField
      m == inMessageType[CHOOSE i \in DOMAIN inMessageType :
                           has(i) /\ \A k \in DOMAIN inMessageType : has(k) => k <= i]
  IN m[CHOOSE j \in DOMAIN m :
         m[j].name = PolicyField /\ \A k \in DOMAIN m : m[k].name = PolicyField => k <= j]

\* C24: for a repeated field, validateChromePolicies accepts the value
\* exactly when it is an array all of whose elements have the kind the
\* field's wire type takes (the empty array included); a value that is not
\* an array, or an array with a single element of another kind, is refused
\* with an error, and for such an array the error names an element of
\* another kind.
C24_RepeatedFieldElementwise ==
  (/\ fieldOp = "validateChromePolicies"
   /\ HasField
   /\ LaterDescriptor.label = "LABEL_REPEATED")
  => LET t == LaterDescriptor.type
         isArray == inValue.kind \in {"Array", "Slice"}
         failing == { i \in 1..Len(inValue.elems) : ~AcceptedKind(t, inValue.elems[i]) }
     IN /\ fieldOut.diags = NoDiags <=> (isArray /\ failing = {})
        /\ fieldOut.diags # NoDiags => HasError(fieldOut.diags)
        /\ (isArray /\ failing # {}) =>
             \E i \in failing : fieldOut.diags.summary.value = inValue.elems[i]

\* The failing case of C24: the array [3, 7] is refused for a repeated
\* field of a 32 bit integer type, its element 3 being named.
C24_Witness ==
  /\ fieldOp = "validateChromePolicies"
  /\ inMessageType = << <<Field(PolicyField, "TYPE_INT32", "LABEL_REPEATED")>> >>
  /\ inValue = JsonArray(<<JsonValue("Float64", 30), JsonValue("Float64", 70)>>)
  /\ HasError(fieldOut.diags)
  /\ fieldOut.diags.summary.value = JsonValue("Float64", 30)

\* C25: the field map is built last-write-wins: when several message types
\* of the schema definition have a field of the policy field's name, the
\* value is validated and converted against the descriptor of the last of
\* them.
C25_FieldMapLastWriteWins ==
  HasField =>
    /\ fieldOp = "validateChromePolicies" =>
         fieldOut.diags = validateFieldValue(LaterDescriptor, inValue)
    /\ fieldOp = "flattenChromePolicies" =>
         LET val == convertPolicyFieldValueType(LaterDescriptor.type, inValue)
         IN IF val.err # "nil"
              THEN HasError(fieldOut.diags)
              ELSE fieldOut.diags = NoDiags /\ fieldOut.value = val.value

\* Two message types with a field of the name, of different types: the
\* string "7" was converted as the later one's 64 bit integer, not kept as
\* the earlier one's string.
C25_Witness ==
  /\ fieldOp = "flattenChromePolicies"
  /\ inMessageType = << <<Field(PolicyField, "TYPE_STRING", "LABEL_OPTIONAL"), OtherField>>,
                        <<Field(PolicyField, "TYPE_INT64", "LABEL_OPTIONAL")>> >>
  /\ inValue = JsonString(<<"7">>)
  /\ fieldOut.diags = NoDiags
  /\ fieldOut.value.kind = "Int64"

----------------------------------------------------------------------------
(* Further properties of update, checked under SpecUpdate.                 *)

OrgUnitUpdates ==
  {"resourceChromePolicyUpdate", "chromePolicyUpdateCommon", "chromePolicyUpdateCommonV1"}

\* C26: in an org-unit policy update the first dispatch is the batch-inherit
\* of the old policies; a batch-modify is dispatched only after that inherit
\* succeeded; when the inherit fails, it is the only dispatch and the update
\* returns its error.
C26_InheritPrecedesModify ==
  (handler \in OrgUnitUpdates /\ kind = targetOrgUnit) =>
    /\ calls # <<>>
    /\ calls[1].prim = "Orgunits.BatchInherit"
    /\ calls[1].items = SchemaNamesOf(oldPolicies)
    /\ \A i \in DOMAIN calls : IsModify(calls[i]) => i > 1 /\ calls[1].outcome = "ok"
    /\ calls[1].outcome # "ok" =>
         /\ Len(calls) = 1
         /\ result = "error"
         /\ diags = FromErr(BatchError(calls[1]))

\* An org-unit update whose inherit failed: nothing else was dispatched,
\* although the configuration is valid and lists a policy.
C26_Witness ==
  /\ handler = "resourceChromePolicyUpdate" /\ kind = targetOrgUnit
  /\ cfgPolicies # <<>> /\ validateChromePolicies(cfgPolicies, cfgKeys, FALSE)
  /\ Len(calls) = 1 /\ calls[1].prim = "Orgunits.BatchInherit" /\ calls[1].outcome = "error"
  /\ result = "error"

\* C27: in an org-unit policy update that changes additional_target_keys,
\* the old policies are inherited at the target narrowed by the keys they
\* were applied under (the prior keys), not by the newly configured ones.
C27_InheritAtPriorKeys ==
  (/\ handler \in OrgUnitUpdates /\ kind = targetOrgUnit
   /\ expandChromePoliciesAdditionalTargetKeys(cfgKeys)
        # expandChromePoliciesAdditionalTargetKeys(oldKeys)
   /\ calls # <<>>) =>
    calls[1].target = TargetKey(kind, expandChromePoliciesAdditionalTargetKeys(oldKeys))

\* The failing case of C27: an update that changes the keys inherited at
\* the new keys and succeeded, and the old policy is still set at the old keys.
C27_Witness ==
  /\ handler = "resourceChromePolicyUpdate" /\ kind = targetOrgUnit /\ result = "ok"
  /\ oldPolicies # <<>> /\ oldKeys # <<>> /\ cfgKeys # <<>>
  /\ expandChromePoliciesAdditionalTargetKeys(cfgKeys)
       # expandChromePoliciesAdditionalTargetKeys(oldKeys)
  /\ calls[1].prim = "Orgunits.BatchInherit"
  /\ calls[1].target = TargetKey(kind, expandChromePoliciesAdditionalTargetKeys(cfgKeys))
  /\ \A sch \in Range(SchemaNamesOf(oldPolicies)) :
       Resolve(remote, TargetKey(kind, expandChromePoliciesAdditionalTargetKeys(oldKeys)), sch)

----------------------------------------------------------------------------
(* Further properties of create, read and delete, checked under Spec.      *)

\* The number of batches resourceChromeGroupPolicyDelete has to dispatch:
\* one per policy without additional target keys, one per binding with them.
DeleteBatches == IF oldKeys = <<>> THEN Len(oldPolicies) ELSE Len(oldKeys)

\* C28: in a group policy deletion a batch that fails with HTTP 400 "apps
\* are not installed" does not end the operation: when no batch fails
\* otherwise, every batch is dispatched and the deletion succeeds; a batch
\* that fails with another error is the last one dispatched and the
\* deletion returns that error.
C28_NotInstalledIsSkipped ==
  handler = "resourceChromeGroupPolicyDelete" =>
    /\ \A i \in DOMAIN calls :
         /\ calls[i].prim = "Groups.BatchDelete"
         /\ calls[i].outcome = "error" =>
              /\ i = Len(calls)
              /\ result = "error"
              /\ diags = FromErr(BatchError(calls[i]))
    /\ (\A i \in DOMAIN calls : calls[i].outcome \in {"ok", "notInstalled"}) =>
         /\ Len(calls) = DeleteBatches
         /\ result = "ok"
         /\ diags = NoDiags
    /\ Len(calls) <= DeleteBatches

\* A deletion whose first batch was answered "apps are not installed" went
\* on to a second batch and succeeded.
C28_Witness ==
  /\ handler = "resourceChromeGroupPolicyDelete"
  /\ Len(calls) = 2
  /\ calls[1].outcome = "notInstalled" /\ calls[2].outcome = "ok"
  /\ result = "ok"

----------------------------------------------------------------------------
(* The read handlers run on their own (a refresh): the resource has state  *)
(* and the remote service may have lost some of its policies since.        *)

\* The target a read resolves at: the resource narrowed by all the keys.
ReadTarget(k, keys) == TargetKey(k, expandChromePoliciesAdditionalTargetKeys(keys))

\* What a Resolve can be answered after its retries: an error, or the list
\* of resolved policy values, empty when the schema is not set at the
\* target and of one or several values when it is.
ResolveAnswers(r, t, sch) ==
  { [err |-> TRUE, policies |-> <<>>] } \cup
  (IF Resolve(r, t, sch)
     THEN { [err |-> FALSE, policies |-> <<"first value">>],
            [err |-> FALSE, policies |-> <<"first value", "second value">>] }
     ELSE { [err |-> FALSE, policies |-> <<>>] })

\* The answers a read gets for its schemas: one per schema, in order, up to
\* and including the first error.
ResolveRuns(r, t, schemas) ==
  { resps \in UNION { [1..n -> UNION { ResolveAnswers(r, t, schemas[i]) : i \in 1..Len(schemas) }]
                      : n \in 0..Len(schemas) } :
      /\ \A i \in DOMAIN resps : resps[i] \in ResolveAnswers(r, t, schemas[i])
      /\ \A i \in DOMAIN resps : resps[i].err => i = Len(resps)
      /\ Len(resps) < Len(schemas) => (resps # <<>> /\ resps[Len(resps)].err) }

ResolveError == [kind |-> "resolve", outcome |-> "error"]

\* The body of resourceChromePolicyRead and of resourceChromeGroupPolicyRead
\* on d's policies dp: a Resolve error is returned; a schema without
\* resolved policy is skipped; the first resolved value of every other
\* schema goes to flattenChromePolicies, whose error is returned, and whose
\* policies (none when a schema definition is missing) are set on d.
ReadPolicies(dp, schemas, resps, fetchErr, defined) ==
  LET kept == SelectSeq([i \in 1..Len(schemas) |-> i], LAMBDA i : resps[i].policies # <<>>)
  IN IF resps # <<>> /\ resps[Len(resps)].err
       THEN [ok |-> FALSE, diags |-> FromErr(ResolveError), policies |-> dp, values |-> <<>>]
     ELSE IF fetchErr
       THEN [ok |-> FALSE, diags |-> FromErr(HandlerError), policies |-> dp, values |-> <<>>]
     ELSE IF kept # <<>> /\ ~defined
       THEN [ok |-> TRUE, diags |-> NoDiags, policies |-> <<>>, values |-> <<>>]
     ELSE [ok |-> TRUE, diags |-> NoDiags,
           policies |-> [j \in 1..Len(kept) |-> schemas[kept[j]]],
           values |-> [j \in 1..Len(kept) |-> resps[kept[j]].policies[1]]]

InitRead ==
  /\ GroupIdle /\ FieldIdle /\ OrderingIdle /\ FileIdle /\ ReadIdle
  /\ kind \in {targetOrgUnit, targetGroup}
  /\ exists = TRUE
  /\ \E c \in StoredStates(MaxPolicies, MaxKeys) :
       /\ oldPolicies = c[1]
       /\ oldKeys = c[2]
       /\ dPolicies = SchemaNamesOf(c[1])
       /\ remote \in SUBSET { <<ReadTarget(kind, c[2]), sch>> : sch \in Range(SchemaNamesOf(c[1])) }
  /\ handler = "none" /\ cfgPolicies = <<>> /\ cfgKeys = <<>>
  /\ calls = <<>> /\ result = "none" /\ diags = NoDiags

ReadFinish(h, resps, out) ==
  /\ handler' = h
  /\ cfgPolicies' = oldPolicies
  /\ cfgKeys' = oldKeys
  /\ result' = IF out.ok THEN "ok" ELSE "error"
  /\ diags' = out.diags
  /\ dPolicies' = out.policies
  /\ dValues' = out.values
  /\ resolveResp' = resps
  /\ UNCHANGED <<kind, exists, oldPolicies, oldKeys, calls, remote>>
  /\ UNCHANGED <<groupVars, fieldVars, orderingVars, fileVars>>

resourceChromePolicyReadRefresh ==
  /\ handler = "none" /\ kind = targetOrgUnit /\ exists
  /\ \E resps \in ResolveRuns(remote, ReadTarget(kind, oldKeys), SchemaNamesOf(oldPolicies)) :
     \E fetchErr \in BOOLEAN, defined \in BOOLEAN :
       /\ fetchErr => defined
       /\ ReadFinish("resourceChromePolicyRead", resps,
            ReadPolicies(dPolicies, SchemaNamesOf(oldPolicies), resps, fetchErr, defined))

resourceChromeGroupPolicyReadRefresh ==
  /\ handler = "none" /\ kind = targetGroup /\ exists
  /\ \E resps \in ResolveRuns(remote, ReadTarget(kind, oldKeys), SchemaNamesOf(oldPolicies)) :
     \E fetchErr \in BOOLEAN, defined \in BOOLEAN :
       /\ fetchErr => defined
       /\ ReadFinish("resourceChromeGroupPolicyRead", resps,
            ReadPolicies(dPolicies, SchemaNamesOf(oldPolicies), resps, fetchErr, defined))

NextRead ==
  \/ resourceChromePolicyReadRefresh
  \/ resourceChromeGroupPolicyReadRefresh

SpecRead == InitRead /\ [][NextRead]_vars

\* C29: a read of a chrome policy resource whose Resolve calls all answered
\* succeeds unless flattenChromePolicies fails, however many schemas
\* resolved to no policy; after it d's policies are exactly the schemas
\* that resolved to a policy, in configuration order, each with the first
\* of the values resolved for it.
C29_UnresolvedSchemasAreOmitted ==
  (/\ handler \in {"resourceChromePolicyRead", "resourceChromeGroupPolicyRead"}
   /\ \A i \in DOMAIN resolveResp : ~resolveResp[i].err
   /\ diags # FromErr(HandlerError)) =>
    LET schemas == SchemaNamesOf(cfgPolicies)
        kept == SelectSeq([i \in 1..Len(schemas) |-> i],
                          LAMBDA i : resolveResp[i].policies # <<>>)
    IN /\ result = "ok"
       /\ Len(resolveResp) = Len(schemas)
       /\ dPolicies = [j \in 1..Len(kept) |-> schemas[kept[j]]]
       /\ dValues = [j \in 1..Len(kept) |-> resolveResp[kept[j]].policies[1]]

\* The failing case of C29: of two schemas the first resolved to no policy
\* and the second to two; the schema fetched for the second has no
\* definition, and the read succeeded with no policy left in d.
C29_Witness ==
  /\ handler = "resourceChromeGroupPolicyRead" /\ result = "ok"
  /\ Len(resolveResp) = 2
  /\ resolveResp[1].policies = <<>>
  /\ Len(resolveResp[2].policies) = 2
  /\ dPolicies = <<>>

----------------------------------------------------------------------------
(* A further property of the group update, checked under SpecGroup.        *)

\* The group update returned the error about "security_group" changing
\* from true to false: the check is reached only after the wait converged.
RejectedForSecurityLabel ==
  /\ gHandler = "resourceGroupUpdate"
  /\ oldSecurityGroup /\ ~cfgSecurityGroup
  /\ waitState = "Converged"
  /\ gResult = "error"

\* C30: a group update rejected because security_group changes from true
\* to false has issued no mutating remote call: no Groups.Update, no
\* Aliases.Insert and no Aliases.Delete, and no label patch.
C30_RejectedUpdateIssuesNoMutation ==
  RejectedForSecurityLabel => mutating = <<>> /\ labelsSent = <<>>

\* The failing case of C30: the rejected update has deleted an alias,
\* inserted another and updated the group.
C30_Witness ==
  /\ RejectedForSecurityLabel
  /\ \E i, j, k \in DOMAIN mutating :
       /\ mutating[i].op = "Aliases.Delete" /\ mutating[i].outcome = "ok"
       /\ mutating[j].op = "Aliases.Insert" /\ mutating[j].outcome = "ok"
       /\ mutating[k].op = "Groups.Update" /\ mutating[k].outcome = "ok"

====
